---- MODULE Spec2Model ----
(***************************************************************************)
(* A model of the particle engine of the repository:                       *)
(*   - the shape sampler            (src/utils/shapes.ts),                  *)
(*   - the stroke resampler         (src/components/DrawingCanvas.tsx),     *)
(*   - the application state        (src/unnamed/part_000, the App),        *)
(*   - the particle mesh and frame  (src/unnamed/part_002, ParticleMesh).   *)
(*                                                                         *)
(* Numbers.  A JavaScript number is held in fixed point: the integer n     *)
(* stands for n / Unit.  Products and quotients round towards minus        *)
(* infinity (\div).  A value of Math.random() is held as k / RandUnit with *)
(* 0 <= k < RandUnit.  NaN (0/0) is the value NaN, never a number.         *)
(***************************************************************************)
EXTENDS Integers, Sequences, FiniteSets, TLC

VARIABLES
  \* ---- generateParticles (shapes.ts) ----
  gPc,          \* "idle" | "loop" | "heart" | "done": position in generateParticles
  gShape,       \* the shape argument
  gCount,       \* the count argument
  gI,           \* the loop variable i
  gPositions,   \* the Float32Array positions: cell idx is gPositions[idx + 1];
                \* a cell holds its value v and whether it was assigned (w)
  gCall,        \* the helper call made by the last iteration of the loop
  hScale,       \* getVolumetricHeartPoint: the scale argument
  hPost,        \* what the calling case does with the returned heart point
  hRejected,    \* getVolumetricHeartPoint: this call has redrawn at least once
  hRet,         \* the point last returned by getVolumetricHeartPoint, if valid
  \* ---- DrawingCanvas (DrawingCanvas.tsx) ----
  paths,        \* the committed strokes
  currentPath,  \* the stroke being drawn
  isDrawing,
  lastSave,     \* what the last processAndSave did (its callback and its walk)
  \* ---- App (part_000) ----
  currentShape,
  customPoints,       \* NoPoints (null) or the saved Float32Array
  showDrawingCanvas,
  color,              \* the three bytes of the hex string
  handData,
  playlist,           \* the number of tracks of the playlist
  currentTrackIndex,  \* NoTrack (null) or an index into the playlist
  \* ---- AudioManager (part_004) ----
  isInitialized,
  audio,              \* what getAudioData returns now: bass, mid, high
  dataArray,          \* NoData (null) or the bytes last read from the analyser
  isPlayingFile,
  oscillators,        \* the number of started oscillators the array holds
  droneGain,          \* whether droneGain is a node (TRUE) or null
  audioElement,       \* src (NoTrack or an index into the playlist) and paused
  requests,           \* the playAudioUrl calls waiting at `await play()`, oldest first
  \* ---- HandTracker (part_001) ----
  prevPosRef,
  prevOpennessRef,
  wasOpenRef,
  lastTriggerTimeRef,
  latestOnGestureTrigger,  \* the isMusicMode bound in the handler the ref holds
  now,                \* Date.now() at the last tracker result
  nextShape,          \* nextShape of handleGestureTrigger while its loop runs
  warped,
  isMountedRef,
  handsRef,           \* "none" before the effect, "open", or "null" after the cleanup
  inFlight,           \* images sent to the hands instance whose result has not arrived
  called,             \* history: what the last camera frame or tracker result called
  peak,               \* history: the largest smoothed openness since the last trigger
  held,               \* history: a closed hand was held back by the 450 ms window
             \* the last tracker result reached audioManager.triggerWarp()
  \* ---- ParticleMesh (part_002) ----
  targetPositions,    \* the memo of lines 34-53
  physicsPositions,   \* physicsPositions.current
  positions,          \* the position attribute of the geometry: the trails
  colors,             \* the color attribute of the geometry
  randomOffsets,
  transitionRef,      \* transitionRef.current; the integer n stands for n / TUnit
  prevShapeRef,
  rotation,           \* pointsRef.current.rotation
  material,           \* size and opacity of materialRef.current
  time,               \* state.clock.getElapsedTime() at the last frame
  \* ---- history (not program state) ----
  sinceChange,        \* frames run since currentShape last changed; -1 before any change
  lastStep,           \* "none" | "frame" | "event"
  eventsLeft,         \* how many more App events this run takes
  framesLeft          \* how many more frames this run takes

gvars == <<gPc, gShape, gCount, gI, gPositions, gCall,
           hScale, hPost, hRejected, hRet>>

dvars == <<paths, currentPath, isDrawing, lastSave>>

avars == <<currentShape, customPoints, showDrawingCanvas>>

uvars == <<color, handData, playlist, currentTrackIndex, isInitialized, audio, dataArray>>

pvars == <<isPlayingFile, oscillators, droneGain, audioElement, requests>>

kvars == <<isMountedRef, handsRef, inFlight, called, peak, held>>

tvars == <<prevPosRef, prevOpennessRef, wasOpenRef, lastTriggerTimeRef,
           latestOnGestureTrigger, now, nextShape, warped>>

mvars == <<targetPositions, physicsPositions, positions, colors, randomOffsets,
           transitionRef, prevShapeRef, rotation, material, time>>

hvars == <<sinceChange, lastStep, eventsLeft, framesLeft>>

notGen == <<dvars, avars, uvars, pvars, tvars, kvars, mvars, hvars>>
notDraw == <<gvars, uvars, pvars, tvars, kvars, mvars, hvars>>

vars == <<gPc, gShape, gCount, gI, gPositions, gCall, hScale, hPost, hRejected, hRet,
          paths, currentPath, isDrawing, lastSave,
          currentShape, customPoints, showDrawingCanvas,
          color, handData, playlist, currentTrackIndex, isInitialized, audio, dataArray,
          prevPosRef, prevOpennessRef, wasOpenRef, lastTriggerTimeRef,
          latestOnGestureTrigger, now, nextShape, warped,
          isPlayingFile, oscillators, droneGain, audioElement, requests,
          isMountedRef, handsRef, inFlight, called, peak, held,
          targetPositions, physicsPositions, positions, colors, randomOffsets,
          transitionRef, prevShapeRef, rotation, material, time,
          sinceChange, lastStep, eventsLeft, framesLeft>>

-----------------------------------------------------------------------------
(* Bounds of the model. *)

MaxCount == 2          \* generateParticles is called with count in 0..MaxCount
MaxPoints == 4         \* points of one drawing, over all its strokes
TargetCount == 4       \* COUNT of processAndSave (8000 in the source), scaled down
CanvasWidth == 10      \* canvas.width, in pixels
CanvasHeight == 5      \* canvas.height, in pixels
PARTICLE_COUNT == 1    \* PARTICLE_COUNT of ParticleMesh (8000 in the source), scaled down
MaxTracks == 1         \* files uploaded to the playlist
MaxSceneEvents == 2    \* App events of a run of the scene
MaxSceneFrames == 1    \* frames of a run of the scene
MaxDecayEvents == 2    \* App events of a run of the decay
MaxDecayFrames == 58   \* frames of a run of the decay
MaxTrackerEvents == 4  \* tracker results and mode changes of a run of the tracker
TrailParticles == 2    \* particles of a run of the trail step
MaxTrailFrames == 6    \* frames of a run of the trail step
MaxPlaybackEvents == 6 \* App events and settled play() promises of a run of the playback
MaxRequests == 2       \* playAudioUrl calls waiting at one time
MaxUploads == 2        \* files uploaded in a run of the playback
MaxGestureEvents == 8  \* tracker results of a run of the gesture
MaxUnmountEvents == 9  \* camera frames, tracker results and the cleanup of a run of the unmount
SceneCount == 5        \* count of ParticleScene.tsx (10000 in the source, more than
                       \* COUNT of processAndSave), scaled down

-----------------------------------------------------------------------------
(* Fixed-point numbers. *)

Unit == 1000           \* the integer that stands for 1.0
RandUnit == 6000       \* Math.random() = k / RandUnit

Mul(a, b) == (a * b) \div Unit
Div(a, b) == (a * Unit) \div b
Abs(a) == IF a < 0 THEN -a ELSE a
Min(a, b) == IF a < b THEN a ELSE b
Max(a, b) == IF a > b THEN a ELSE b

\* k / RandUnit as a fixed-point number
Rand(k) == (k * Unit) \div RandUnit

\* Math.random() * a, for the draw k / RandUnit
RandTimes(k, a) == (k * a) \div RandUnit

RECURSIVE SqrtSearch(_, _, _)
SqrtSearch(n, lo, hi) ==
  IF lo >= hi THEN lo
  ELSE LET mid == (lo + hi + 1) \div 2
       IN IF mid * mid <= n THEN SqrtSearch(n, mid, hi)
          ELSE SqrtSearch(n, lo, mid - 1)

\* Math.sqrt of a fixed-point number: floor(sqrt(a * Unit))
Sqrt(a) == SqrtSearch(a * Unit, 0, 46340)

RECURSIVE CbrtSearch(_, _, _)
CbrtSearch(n, lo, hi) ==
  IF lo >= hi THEN lo
  ELSE LET mid == (lo + hi + 1) \div 2
       IN IF mid * mid * mid <= n THEN CbrtSearch(n, mid, hi)
          ELSE CbrtSearch(n, lo, mid - 1)

\* Math.cbrt of a fixed-point number in [0, 1]: floor(cbrt(a * Unit^2))
Cbrt(a) == CbrtSearch(a * Unit * Unit, 0, Unit)

Pi == 3142             \* Math.PI in fixed point

\* Math.sin on [0, Pi] (Bhaskara's rational approximation, exact at 0, Pi/2, Pi)
SinHalf(x) ==
  LET p == (x * (Pi - x)) \div Unit
  IN (16 * Unit * p) \div (((5 * Pi * Pi) \div Unit) - 4 * p)

Sin(x) ==
  LET r == x % (2 * Pi)
  IN IF r <= Pi THEN SinHalf(r) ELSE -SinHalf(r - Pi)

Cos(x) == Sin(x + Pi \div 2)


-----------------------------------------------------------------------------
(* utils/shapes.ts *)

ShapeType ==
  {"Heart", "Double Heart", "Flower", "Flower Sea", "Saturn", "Solar System",
   "Ring", "Butterfly", "I Love U", "Buddha", "Fireworks", "Galaxy", "DNA",
   "Sphere", "Custom"}

\* An identifier outside the enumeration (the switch is on a string value).
Unrecognized == "Unrecognized"

Identifiers == ShapeType \cup {Unrecognized}

Vec(x, y, z) == [x |-> x, y |-> y, z |-> z]

\* The values of Math.random() the model draws.
SphereU == {0, 1500}                 \* theta = 0, Pi/2
SphereV == {0, 3000}                 \* 2v - 1 = -1, 0
SphereW == {750, 5999}               \* cbrt(w) = 1/2, ~1
HeartDraws == {0, 1000, 2000, 3000, 4000, 5000}   \* 3r - 1.5 = -1.5, -1, ..., 1
Selectors == {0, 1000, 2000, 3000, 4000, 5000}    \* a branch selector
InlineCoords == {0, Unit}     \* a coordinate computed by an inline formula

\* getRandomPointInSphere(radius) with the draws u, v and the draw w of line 12.
\* cos(acos(c)) = c and sin(acos(c)) = sqrt(1 - c^2).
getRandomPointInSphere(radius, u, v, w) ==
  LET theta == RandTimes(u, 2 * Pi)
      cosPhi == RandTimes(v, 2 * Unit) - Unit
      r == Mul(Cbrt(Rand(w)), radius)
      sinPhi == Sqrt(Unit - Mul(cosPhi, cosPhi))
  IN Vec(Mul(Mul(r, sinPhi), Cos(theta)),
         Mul(Mul(r, sinPhi), Sin(theta)),
         Mul(r, cosPhi))

SpherePoints(radius) ==
  {getRandomPointInSphere(radius, u, v, w) : u \in SphereU, v \in SphereV, w \in SphereW}

\* Math.random() * 3 - 1.5
HeartCoord(k) == RandTimes(k, 3 * Unit) - (3 * Unit) \div 2

\* result of lines 31-32, times 20480, for x, y, z on the half-unit grid:
\* with x = a/2, y = b/2, z = c/2 and n = 4a^2 + 9b^2 + 4c^2 - 16,
\*   (x^2 + 9/4 y^2 + z^2 - 1)^3 - x^2 z^3 - 9/80 y^2 z^3
\*     = (5 n^3 - 640 a^2 c^3 - 72 b^2 c^3) / 20480.
HeartResult(x, y, z) ==
  LET a == (2 * x) \div Unit
      b == (2 * y) \div Unit
      c == (2 * z) \div Unit
      n == 4 * a * a + 9 * b * b + 4 * c * c - 16
  IN 5 * n * n * n - 640 * a * a * c * c * c - 72 * b * b * c * c * c

HeartAcceptsLoose(x, y, z) == HeartResult(x, y, z) <= 0

\* line 34: if (result < 0)
HeartAccepts(x, y, z) == HeartResult(x, y, z) < 0

HeartSetSame(x, y, z) == Vec(x, y, z)

\* line 35: p.set(x, z, y)
HeartSet(x, y, z) == Vec(x, z, y)

\* line 39: p.multiplyScalar(scale)
MultiplyScalar(p, scale) == Vec(Mul(p.x, scale), Mul(p.y, scale), Mul(p.z, scale))

\* The planets of SOLAR_SYSTEM (lines 234-243): r, size, angle.
Planets ==
  << [r |-> 1500, size |-> 100, angle |-> 0],
     [r |-> 2200, size |-> 180, angle |-> 1200],
     [r |-> 3200, size |-> 200, angle |-> 2500],
     [r |-> 4500, size |-> 150, angle |-> 4000],
     [r |-> 6500, size |-> 500, angle |-> 5500],
     [r |-> 8500, size |-> 450, angle |-> 500],
     [r |-> 10500, size |-> 300, angle |-> 2000],
     [r |-> 12500, size |-> 300, angle |-> 3500] >>

Zero3 == Vec(0, 0, 0)

Plan(helper, arg, rot, off, inline) ==
  [helper |-> helper, arg |-> arg, rot |-> rot, off |-> off, inline |-> inline]

InlinePlan == Plan("inline", 0, FALSE, Zero3, TRUE)
SpherePlan(radius, off) == Plan("getRandomPointInSphere", radius, FALSE, off, FALSE)
HeartPlan(scale, rot, off) == Plan("getVolumetricHeartPoint", scale, rot, off, FALSE)

DefaultPlansNone == {Plan("none", 0, FALSE, Zero3, FALSE)}

\* lines 307-312: case ShapeType.SPHERE: default:
DefaultPlans == {SpherePlan(3 * Unit, Zero3)}

\* The switch of lines 49-313: the helper call and the arithmetic of the case
\* that `shape` selects, for each value of the case's selector draw.  An inline
\* formula (a case that calls no helper) yields some finite coordinates.
Plans(shape) ==
  CASE shape = "Heart" -> {HeartPlan(2 * Unit, FALSE, Zero3)}
    [] shape = "Double Heart" ->
         {IF Rand(s) < Unit \div 2
            THEN HeartPlan((18 * Unit) \div 10, FALSE, Vec(-(8 * Unit) \div 10, 0, 0))
            ELSE HeartPlan((18 * Unit) \div 10, TRUE, Vec((8 * Unit) \div 10, 0, 0))
          : s \in Selectors}
    [] shape \in {"Galaxy", "DNA", "Flower", "Flower Sea", "Ring", "Butterfly",
                  "Fireworks"} -> {InlinePlan}
    [] shape = "I Love U" ->
         {IF Rand(s) < (2 * Unit) \div 10 THEN InlinePlan
          ELSE IF Rand(s) < (6 * Unit) \div 10
                 THEN HeartPlan((12 * Unit) \div 10, FALSE, Zero3)
                 ELSE InlinePlan
          : s \in Selectors}
    [] shape = "Saturn" ->
         {IF Rand(s) < (6 * Unit) \div 10
            THEN SpherePlan((18 * Unit) \div 10, Zero3)
            ELSE InlinePlan
          : s \in Selectors}
    [] shape = "Solar System" ->
         UNION {IF Rand(s) < (15 * Unit) \div 100
                  THEN {SpherePlan((8 * Unit) \div 10, Zero3)}
                ELSE IF Rand(s) < (55 * Unit) \div 100 THEN {InlinePlan}
                ELSE UNION {
                  LET planet == Planets[pIdx + 1]
                      centerX == Mul(planet.r, Cos(planet.angle))
                      centerZ == Mul(planet.r, Sin(planet.angle))
                      body == SpherePlan(planet.size, Vec(centerX, 0, centerZ))
                  IN IF pIdx = 5
                       THEN {body, [body EXCEPT !.inline = TRUE]}
                       ELSE {body}
                  : pIdx \in 0..(Len(Planets) - 1)}
                : s \in Selectors}
    [] shape = "Buddha" ->
         {IF Rand(s) < (2 * Unit) \div 10
            THEN SpherePlan((8 * Unit) \div 10, Vec(0, (25 * Unit) \div 10, 0))
            ELSE InlinePlan
          : s \in Selectors}
    [] shape = "Custom" -> {SpherePlan(3 * Unit, Zero3)}
    [] OTHER -> DefaultPlans

InlinePoints == {Vec(x, y, z) : x \in InlineCoords, y \in InlineCoords, z \in InlineCoords}

\* lines 62-65: the rotation by Math.PI / 4 of the second heart
Rotate45(p) ==
  LET angle == Pi \div 4
  IN Vec(Mul(p.x, Cos(angle)) - Mul(p.z, Sin(angle)), p.y,
         Mul(p.x, Sin(angle)) + Mul(p.z, Cos(angle)))

\* What a case assigns to x, y, z from the point p its helper returned.
Finish(plan, p) ==
  LET q == IF plan.rot THEN Rotate45(p) ELSE p
  IN Vec(q.x + plan.off.x, q.y + plan.off.y, q.z + plan.off.z)

\* new Float32Array(n): n cells holding 0, none assigned yet
Float32Array(n) == [k \in 1..n |-> [v |-> 0, w |-> FALSE]]

\* an assigned cell
Cell(v) == [v |-> v, w |-> TRUE]

StoreTwo(arr, idx, pt) ==
  [arr EXCEPT ![idx + 1] = Cell(pt.x), ![idx + 2] = Cell(pt.y)]

\* lines 315-317
Store(arr, idx, pt) ==
  [arr EXCEPT ![idx + 1] = Cell(pt.x), ![idx + 2] = Cell(pt.y),
                    ![idx + 3] = Cell(pt.z)]

LoopRunsShort(i, count) == i < count - 1

\* line 45: i < count
LoopRuns(i, count) == i < count

NoCall == [fn |-> "none", arg |-> 0]
NoPoint == [valid |-> FALSE, p |-> Zero3, scale |-> 0]

GenInit ==
  /\ gPc = "idle" /\ gShape = "Sphere" /\ gCount = 0 /\ gI = 0
  /\ gPositions = <<>> /\ gCall = NoCall
  /\ hScale = 0 /\ hPost = InlinePlan /\ hRejected = FALSE /\ hRet = NoPoint

\* lines 42-43: a call generateParticles(shape, count)
GenCall ==
  /\ gPc = "idle"
  /\ \E shape \in Identifiers, count \in 0..MaxCount :
       /\ gShape' = shape
       /\ gCount' = count
       /\ gPositions' = Float32Array(count * 3)
  /\ gI' = 0 /\ gCall' = NoCall
  /\ gPc' = "loop"
  /\ hScale' = 0 /\ hPost' = InlinePlan /\ hRejected' = FALSE /\ hRet' = NoPoint
  /\ UNCHANGED notGen

\* lines 315-317 and the i++ of line 45
GenStore(pt, call) ==
  /\ gPositions' = Store(gPositions, gI * 3, pt)
  /\ gCall' = call
  /\ gI' = gI + 1
  /\ gPc' = "loop"

\* One iteration of the loop of line 45 whose case calls no heart helper.
GenIter ==
  /\ gPc = "loop" /\ LoopRuns(gI, gCount)
  /\ \E plan \in Plans(gShape) :
       /\ plan.helper # "getVolumetricHeartPoint"
       /\ \E pt \in (IF plan.helper = "getRandomPointInSphere"
                       THEN IF plan.inline THEN InlinePoints
                            ELSE {Finish(plan, p) : p \in SpherePoints(plan.arg)}
                     ELSE IF plan.helper = "inline" THEN InlinePoints
                     ELSE {Zero3}) :
            GenStore(pt, [fn |-> plan.helper, arg |-> plan.arg])
  /\ UNCHANGED <<gShape, gCount, hScale, hPost, hRejected, hRet>>
  /\ UNCHANGED notGen

\* An iteration whose case calls getVolumetricHeartPoint(scale): lines 22-24.
HeartEnter ==
  /\ gPc = "loop" /\ LoopRuns(gI, gCount)
  /\ \E plan \in Plans(gShape) :
       /\ plan.helper = "getVolumetricHeartPoint"
       /\ hScale' = plan.arg
       /\ hPost' = plan
  /\ hRejected' = FALSE
  /\ gPc' = "heart"
  /\ UNCHANGED <<gShape, gCount, gI, gPositions, gCall, hRet>>
  /\ UNCHANGED notGen

\* One round of the while loop of lines 26-38, and on acceptance the return of
\* line 39 and the rest of the calling iteration.
HeartTry ==
  /\ gPc = "heart"
  /\ \E kx \in HeartDraws, ky \in HeartDraws, kz \in HeartDraws :
       LET x == HeartCoord(kx)
           y == HeartCoord(ky)
           z == HeartCoord(kz)
           p == MultiplyScalar(HeartSet(x, y, z), hScale)
       IN IF HeartAccepts(x, y, z)
            THEN /\ hRet' = [valid |-> TRUE, p |-> p, scale |-> hScale]
                 /\ GenStore(Finish(hPost, p),
                             [fn |-> "getVolumetricHeartPoint", arg |-> hScale])
                 /\ UNCHANGED hRejected
            ELSE /\ hRejected' = TRUE
                 /\ UNCHANGED <<gPositions, gCall, gI, gPc, hRet>>
  /\ UNCHANGED <<gShape, gCount, hScale, hPost>>
  /\ UNCHANGED notGen

\* line 320: return positions
GenReturn ==
  /\ gPc = "loop" /\ ~LoopRuns(gI, gCount)
  /\ gPc' = "done"
  /\ UNCHANGED <<gShape, gCount, gI, gPositions, gCall,
                 hScale, hPost, hRejected, hRet>>
  /\ UNCHANGED notGen

GenNext == GenCall \/ GenIter \/ HeartEnter \/ HeartTry \/ GenReturn


-----------------------------------------------------------------------------
(* components/DrawingCanvas.tsx and the App's drawing handlers (part_000) *)

\* The value NaN of 0 / 0 (line 214 with segLen = 0 and targetDist = distanceWalked).
NaN == -999999999

\* customPoints = null
NoPoints == <<>>

Pt(x, y) == [x |-> x, y |-> y]

\* The positions getPos can return: canvas pixels, not all on one row or column.
PixelPoints == {Pt(1 * Unit, 2 * Unit), Pt(2 * Unit, 2 * Unit), Pt(4 * Unit, 2 * Unit)}

JitterDraws == {0, 3000}        \* Math.random() of line 221
FillDraws == {0, 5999}          \* Math.random() of line 236

\* lines 172-174 and line 210: the length of the segment p1 p2
SegLen(p1, p2) ==
  SqrtSearch((p2.x - p1.x) * (p2.x - p1.x) + (p2.y - p1.y) * (p2.y - p1.y), 0, 46340)

RECURSIVE PathLengthFrom(_, _)
PathLengthFrom(path, i) ==
  IF i > Len(path) THEN 0
  ELSE SegLen(path[i - 1], path[i]) + PathLengthFrom(path, i + 1)

\* lines 170-176: pLen of one path
PathLength(path) == PathLengthFrom(path, 2)

RECURSIVE SumSeq(_)
SumSeq(q) == IF q = <<>> THEN 0 ELSE Head(q) + SumSeq(Tail(q))

RECURSIVE Flat(_)
\* paths.flat()
Flat(ps) == IF ps = <<>> THEN <<>> ELSE Head(ps) \o Flat(Tail(ps))

NumPointsCeil(pLen, totalLength) == (pLen * TargetCount + totalLength - 1) \div totalLength

NumPointsRound(pLen, totalLength) == (2 * pLen * TargetCount + totalLength) \div (2 * totalLength)

\* line 190: Math.floor((pathLengths[idx] / totalLength) * COUNT)
NumPointsForPath(pLen, totalLength) == (pLen * TargetCount) \div totalLength

\* lines 180-183
centerX == (CanvasWidth * Unit) \div 2
centerY == (CanvasHeight * Unit) \div 2
scale == (Min(CanvasWidth, CanvasHeight) * Unit) \div 5

\* lines 214-220: the sample at targetDist = i * step on the segment p1 p2, where
\* step = pLen / n, distanceWalked = dW: t = (i * pLen - dW * n) / (n * segLen).
Sample(p1, p2, segLen, pLen, n, i, dW, idx) ==
  IF segLen = 0
    THEN [x |-> NaN, y |-> NaN, stroke |-> idx, tNum |-> 0, tDen |-> 0]
    ELSE LET tNum == i * pLen - dW * n
             tDen == n * segLen
             x == p1.x + ((p2.x - p1.x) * tNum) \div tDen
             y == p1.y + ((p2.y - p1.y) * tNum) \div tDen
         IN [x |-> Div(x - centerX, scale), y |-> -Div(y - centerY, scale),
             stroke |-> idx, tNum |-> tNum, tDen |-> tDen]

\* lines 207-229: the while loop for sample i; seg is currentSegIdx.
RECURSIVE FindSegment(_, _, _, _, _, _, _)
FindSegment(path, pLen, n, i, seg, dW, idx) ==
  IF ~(seg < Len(path) - 1)
    THEN [found |-> FALSE, seg |-> seg, dW |-> dW]
    ELSE LET p1 == path[seg + 1]
             p2 == path[seg + 2]
             segLen == SegLen(p1, p2)
         IN IF (dW + segLen) * n >= i * pLen
              THEN [found |-> TRUE, seg |-> seg, dW |-> dW,
                    sample |-> Sample(p1, p2, segLen, pLen, n, i, dW, idx)]
              ELSE FindSegment(path, pLen, n, i, seg + 1, dW + segLen, idx)

\* lines 199-230: the for loop over the samples of one path; acc holds the
\* samples placed so far (pIdx = Len(acc)).
RECURSIVE WalkPath(_, _, _, _, _, _, _, _)
WalkPath(path, pLen, n, i, seg, dW, idx, acc) ==
  IF ~(i < n /\ Len(acc) < TargetCount) THEN acc
  ELSE LET f == FindSegment(path, pLen, n, i, seg, dW, idx)
       IN WalkPath(path, pLen, n, i + 1, f.seg, f.dW, idx,
                   IF f.found THEN Append(acc, f.sample) ELSE acc)

\* lines 188-231: flatPaths.forEach
RECURSIVE WalkPaths(_, _, _, _)
WalkPaths(ps, totalLength, idx, acc) ==
  IF idx > Len(ps) THEN acc
  ELSE LET path == ps[idx]
           pLen == PathLength(path)
       IN IF totalLength = 0 \/ Len(path) < 2
            THEN WalkPaths(ps, totalLength, idx + 1, acc)
            ELSE WalkPaths(ps, totalLength, idx + 1,
                   WalkPath(path, pLen, NumPointsForPath(pLen, totalLength),
                            0, 0, 0, idx, acc))

TotalLength(ps) == SumSeq([k \in 1..Len(ps) |-> PathLength(ps[k])])

\* The samples the walk of lines 164-231 places, in order.
Walk(ps) == WalkPaths(ps, TotalLength(ps), 1, <<>>)

\* lines 219-221: the cells of the placed samples; jz are the draws of line 221
Place(samples, jz) ==
  [k \in 1..(3 * TargetCount) |->
     LET p == (k - 1) \div 3 + 1
         c == (k - 1) % 3
     IN IF p > Len(samples) THEN [v |-> 0, w |-> FALSE]
        ELSE IF c = 0 THEN Cell(samples[p].x)
        ELSE IF c = 1 THEN Cell(samples[p].y)
        ELSE Cell(Mul(Rand(jz[p]) - Unit \div 2, Unit \div 2))]

\* lines 234-241: the fill loop; a copied cell is the cell it was copied from
RECURSIVE Fill(_, _, _, _)
Fill(arr, pIdx, fd, k) ==
  IF ~(pIdx < TargetCount) THEN arr
  ELSE LET sourceIdx == RandTimes(fd[k], pIdx)
       IN Fill([arr EXCEPT ![pIdx * 3 + 1] = arr[sourceIdx * 3 + 1],
                                 ![pIdx * 3 + 2] = arr[sourceIdx * 3 + 2],
                                 ![pIdx * 3 + 3] = arr[sourceIdx * 3 + 3]],
               pIdx + 1, fd, k + 1)

DegenerateLoose(ps, cur) ==
  \/ Len(ps) = 0 /\ Len(cur) = 0
  \/ Len(Flat(ps)) < 1

\* lines 150 and 159: the two early returns of processAndSave
Degenerate(ps, cur) ==
  \/ Len(ps) = 0 /\ Len(cur) = 0
  \/ Len(Flat(ps)) < 2

\* The number of samples of `samples` placed on stroke idx
PlacedOn(samples, idx) == Cardinality({k \in 1..Len(samples) : samples[k].stroke = idx})

-----------------------------------------------------------------------------
(* unnamed/part_002: ParticleMesh, its memos and its frame callback *)

TRAIL_LENGTH == 5

\* transitionRef.current is held finer than the positions: n stands for n / TUnit
TUnit == 10000000

\* The clock advances by one sixtieth of a second from frame to frame.
Tick == 16

NoTrack == -1

Hand(isOpen, gestureValue, x, y) ==
  [isOpen |-> isOpen, gestureValue |-> gestureValue, position |-> [x |-> x, y |-> y]]

\* part_000 lines 69-73
DefaultHand == Hand(FALSE, 0, Unit \div 2, Unit \div 2)

\* The snapshots the tracker delivers.
HandSamples == {DefaultHand, Hand(TRUE, Unit, Unit, 0), Hand(FALSE, Unit \div 4, 0, Unit)}

Levels(bass, mid, high) == [bass |-> bass, mid |-> mid, high |-> high]

\* part_004 line 181
Silence == Levels(0, 0, 0)

\* What the analyser shows while sound plays.
AudioSamples == {Silence, Levels(800, 500, 400)}

\* part_004 lines 37-39: fftSize 512, so frequencyBinCount is 256
frequencyBinCount == 256

NoData == <<>>

\* new Uint8Array(frequencyBinCount)
ZeroData == [k \in 1..frequencyBinCount |-> 0]

\* The bytes of a loud passage: bins 0-14 at 204, bins 15-79 at 128 and 127 in
\* turn, bins 80-199 at 102, the rest silent.
LoudData ==
  [k \in 1..frequencyBinCount |->
     IF k <= 15 THEN 204
     ELSE IF k <= 80 THEN (IF (k - 16) % 2 = 0 THEN 128 ELSE 127)
     ELSE IF k <= 200 THEN 102 ELSE 0]

\* What the analyser holds in a run of the scene.
Analysed == {ZeroData, LoudData}

\* A byte array whose bins 0..14 hold b, 15..79 hold m and 80..199 hold h
Spectrum(b, m, h) ==
  [k \in 1..frequencyBinCount |->
     IF k <= 15 THEN b ELSE IF k <= 80 THEN m ELSE IF k <= 200 THEN h ELSE 0]

\* part_004 lines 185-189: the mean of the bins start .. end - 1
RECURSIVE SumBins(_, _, _)
SumBins(data, start, end) ==
  IF start >= end THEN 0
  ELSE IF end = start + 1 THEN data[start + 1]
  ELSE LET half == (start + end) \div 2
       IN SumBins(data, start, half) + SumBins(data, half, end)

getAvgSum(data, start, end) == SumBins(data, start, end) * Unit

\* part_004 lines 185-189
getAvg(data, start, end) == (SumBins(data, start, end) * Unit) \div (end - start)

\* part_004 lines 180-196
getAudioData(data) ==
  IF data = NoData THEN Levels(0, 0, 0)
  ELSE Levels(getAvg(data, 0, 15) \div 255, getAvg(data, 15, 80) \div 255,
              getAvg(data, 80, 200) \div 255)

\* part_004 lines 2-17: the fields of the AudioManager as one record
Manager ==
  [isInitialized |-> isInitialized, dataArray |-> dataArray,
   isPlayingFile |-> isPlayingFile, oscillators |-> oscillators,
   droneGain |-> droneGain, audioElement |-> audioElement]

SetManager(m) ==
  /\ isInitialized' = m.isInitialized
  /\ dataArray' = m.dataArray
  /\ isPlayingFile' = m.isPlayingFile
  /\ oscillators' = m.oscillators
  /\ droneGain' = m.droneGain
  /\ audioElement' = m.audioElement

\* part_004 lines 67-86; ctx: this.ctx and this.filterNode are set
startDrone(m, ctx) ==
  IF ~ctx \/ m.isPlayingFile THEN m
  ELSE IF m.droneGain THEN m
  ELSE [m EXCEPT !.droneGain = TRUE, !.oscillators = @ + 3]

\* part_004 lines 88-97
stopDrone(m) == [m EXCEPT !.oscillators = 0, !.droneGain = FALSE]

\* part_004 lines 23-64
initOut(m) ==
  IF m.isInitialized THEN m
  ELSE [startDrone([m EXCEPT !.dataArray = ZeroData,
                             !.audioElement = [src |-> NoTrack, paused |-> TRUE]], TRUE)
          EXCEPT !.isInitialized = TRUE]

\* part_004 lines 105-118: playAudioUrl up to `await this.audioElement.play()`.
\* The context is created in a click handler, so it is running and line 110
\* does not wait.
playStart(m, url) ==
  [stopDrone(initOut(m)) EXCEPT !.audioElement = [src |-> url, paused |-> FALSE]]

\* part_004 lines 119-131: playAudioUrl after play() has settled; ok: resolved
playSettled(m, ok) ==
  IF ok THEN [m EXCEPT !.isPlayingFile = TRUE]
  ELSE startDrone([m EXCEPT !.isPlayingFile = FALSE], TRUE)

\* part_004 lines 134-146
stopAudio(m) ==
  LET el == IF m.isInitialized /\ ~m.audioElement.paused
              THEN [m.audioElement EXCEPT !.paused = TRUE] ELSE m.audioElement
  IN startDrone([m EXCEPT !.audioElement = el, !.isPlayingFile = FALSE], m.isInitialized)

\* part_004 lines 23-64: init() creates the analyser and its array once and
\* starts the drone
init ==
  /\ SetManager(initOut(Manager))
  /\ UNCHANGED requests

\* Date.now() when the tracker starts, in milliseconds; the refs start at 0
StartTime == 1000

NoShape == "none"

Bytes(r, g, b) == [r |-> r, g |-> g, b |-> b]

\* part_000 line 59
COLORS ==
  << Bytes(0, 240, 255), Bytes(255, 0, 170), Bytes(112, 0, 255),
     Bytes(0, 255, 102), Bytes(255, 170, 0), Bytes(255, 255, 255) >>

PoolWithCustom ==
  << "Heart", "Double Heart", "Galaxy", "DNA", "Ring", "Butterfly", "I Love U",
     "Custom" >>

\* part_000 lines 48-57
ROMANTIC_SHAPES ==
  << "Heart", "Double Heart", "Galaxy", "DNA", "Ring", "Butterfly", "I Love U",
     "Fireworks" >>

\* new THREE.Color(color): each byte over 255
Color(c) ==
  [r |-> (c.r * Unit) \div 255, g |-> (c.g * Unit) \div 255, b |-> (c.b * Unit) \div 255]

\* Math.pow(g, 1.5) = g * sqrt(g)
Pow15(g) == Mul(g, Sqrt(g))

Pow5(y) == Mul(Mul(Mul(Mul(y, y), y), y), y)

RECURSIVE FifthRootSearch(_, _, _)
FifthRootSearch(g, lo, hi) ==
  IF lo >= hi THEN lo
  ELSE LET mid == (lo + hi + 1) \div 2
       IN IF Pow5(mid) <= g THEN FifthRootSearch(g, mid, hi)
          ELSE FifthRootSearch(g, lo, mid - 1)

\* Math.pow(g, 1.2) = g * g^(1/5), for g in [0, 1]
Pow12(g) == Mul(g, FifthRootSearch(g, 0, Unit))

Coord(p, c) == IF c = 0 THEN p.x ELSE IF c = 1 THEN p.y ELSE p.z

\* The Float32Array of the points pts[1], pts[2], ...
ToArray(pts) == [k \in 1..(3 * Len(pts)) |-> Coord(pts[(k - 1) \div 3 + 1], (k - 1) % 3)]

\* The point i (from 0) of the array a
PointAt(a, i) == Vec(a[3 * i + 1], a[3 * i + 2], a[3 * i + 3])

\* The draws of Math.random() behind one evaluation of the memo of lines 34-53.
MemoDraws(heart, v, inline, resample) ==
  [heart |-> heart, v |-> v, inline |-> inline, resample |-> resample]

FirstDraws == MemoDraws({3000}, {3000}, {Vec(Unit, 0, Unit)}, {0})
SceneDraws == MemoDraws({3000, 4000}, SphereV, {Vec(Unit, 0, Unit), Vec(0, Unit, 0)},
                        {0, 3000})

\* The points one iteration of generateParticles can store for `shape`
\* (shapes.ts lines 45-318), for the draws D.
ShapePoints(shape, D) ==
  UNION {IF plan.inline \/ plan.helper = "inline" THEN D.inline
         ELSE IF plan.helper = "getRandomPointInSphere"
           THEN {Finish(plan, getRandomPointInSphere(plan.arg, 0, v, RandUnit - 1))
                 : v \in D.v}
         ELSE {Finish(plan, MultiplyScalar(HeartSet(HeartCoord(k), HeartCoord(k),
                                                    HeartCoord(k)), plan.arg))
               : k \in {h \in D.heart :
                          HeartAccepts(HeartCoord(h), HeartCoord(h), HeartCoord(h))}}
         : plan \in Plans(shape)}

\* generateParticles(shape, count): the arrays it can return
generateParticles(shape, count, D) ==
  {ToArray(pts) : pts \in [1..count -> ShapePoints(shape, D)]}

\* lines 38-45: the resampling of a drawing of another length; src are the draws
Resample(points, src) ==
  ToArray([i \in 1..PARTICLE_COUNT |->
             LET srcIdx == RandTimes(src[i], Len(points) \div 3)
             IN Vec(points[srcIdx * 3 + 1].v, points[srcIdx * 3 + 2].v,
                    points[srcIdx * 3 + 3].v)])

\* lines 34-53: the values the memo targetPositions can take
Targets(shape, points, D) ==
  IF shape = "Custom" /\ points # NoPoints
    THEN IF Len(points) # PARTICLE_COUNT * 3
           THEN {Resample(points, src) : src \in [1..PARTICLE_COUNT -> D.resample]}
           ELSE {[k \in 1..Len(points) |-> points[k].v]}
    ELSE generateParticles(shape, PARTICLE_COUNT, D)

useRefInitial(current, initial) == initial

\* useRef(initial) on a render after the first: the ref object of the first render
useRef(current, initial) == current

\* useMemo(factory, deps) on a render after the first
useMemo(current, depsChanged, fresh) == IF depsChanged THEN fresh ELSE current

\* lines 59-75: the geometry's position attribute, each trail slot at the start
StartTrail(startPos) ==
  [k \in 1..(PARTICLE_COUNT * TRAIL_LENGTH * 3) |->
     startPos[((k - 1) \div (3 * TRAIL_LENGTH)) * 3 + ((k - 1) % 3) + 1]]

\* lines 26-89: a render of ParticleMesh with the props currentShape = shape and
\* customPoints = points; newPoints: customPoints is another object than before
Render(shape, points, newPoints, D) ==
  /\ \E fresh \in (IF shape # currentShape \/ newPoints
                     THEN Targets(shape, points, D) ELSE {targetPositions}) :
       targetPositions' = useMemo(targetPositions, shape # currentShape \/ newPoints, fresh)
  /\ physicsPositions' = useRef(physicsPositions, [k \in 1..(PARTICLE_COUNT * 3) |-> 0])
  /\ positions' = useMemo(positions, FALSE, StartTrail(physicsPositions))
  /\ colors' = useMemo(colors, FALSE, [k \in 1..Len(colors) |-> Unit])
  /\ randomOffsets' = useMemo(randomOffsets, FALSE, randomOffsets)
  /\ transitionRef' = IF prevShapeRef # shape THEN TUnit ELSE useRef(transitionRef, 0)
  /\ prevShapeRef' = IF prevShapeRef # shape THEN shape ELSE useRef(prevShapeRef, shape)
  /\ UNCHANGED <<rotation, material, time>>

\* lines 116-118 and 133-136
Rotation(music, hand, au, t, rot) ==
  IF music
    THEN [x |-> Mul(Sin(Mul(t, Unit \div 2)), Unit \div 10) + Mul(au.bass, Unit \div 10),
          y |-> rot.y + 2 + Mul(au.high, 20)]
    ELSE LET targetRotY == Mul(hand.position.x - Unit \div 2, 3 * Unit)
             targetRotX == Mul(hand.position.y - Unit \div 2, (3 * Unit) \div 2)
         IN [x |-> rot.x + Mul(targetRotX - rot.x, 50),
             y |-> rot.y + Mul(targetRotY - rot.y, 50)]

\* lines 122-124 and 139-145
expansionFactor(music, hand, au, t) ==
  IF music
    THEN Unit + Mul(au.bass, 2500) + Mul(Sin(Mul(t, 3 * Unit)), Mul(au.bass, 500))
    ELSE LET pulseFreq == 2 * Unit + Mul(hand.gestureValue, 5 * Unit)
         IN Unit + Mul(Pow15(hand.gestureValue), 3 * Unit) + Mul(au.bass, 500)
              + Mul(Sin(Mul(t, pulseFreq)), 50 + Mul(au.bass, 100))

lerpBaseTenfold(music, hand, au) ==
  IF music THEN 100 + Mul(au.bass, 2000) ELSE 80 + Mul(hand.gestureValue, 50)

\* lines 127 and 148
lerpBase(music, hand, au) ==
  IF music THEN 100 + Mul(au.bass, 200) ELSE 80 + Mul(hand.gestureValue, 50)

vortexStrengthGesture(music, hand, au) == Mul(hand.gestureValue, 500)

\* lines 217-219
vortexStrength(music, hand, au) ==
  IF music THEN Mul(au.high, 800) ELSE Mul(hand.gestureValue, 500)

\* lines 231-233
noiseAmp(music, hand, au) ==
  IF music THEN 100 + Mul(au.high, 500) ELSE 150 + Mul(hand.gestureValue, 200)

\* lines 153-167
Material(music, hand, au, mat) ==
  LET targetSize == 40 + (IF music THEN Mul(au.bass, 150)
                          ELSE Mul(Pow12(hand.gestureValue), 120))
      targetOpacity == IF music THEN 500 + Mul(au.mid, 500)
                       ELSE 600 + Mul(hand.gestureValue, 300)
  IN [size |-> mat.size + Mul(targetSize - mat.size, 100), opacity |-> targetOpacity]

DecayNoClamp(t) == IF t > 0 THEN (t * 92) \div 100 ELSE t

DecayStall(t) == IF t > 0 THEN Max((t * 92) \div 100, TUnit \div 100) ELSE t

\* lines 175-178
Decay(t) ==
  IF t > 0
    THEN LET d == (t * 92) \div 100
         IN IF d < TUnit \div 100 THEN 0 ELSE d
    ELSE t

\* (Math.random() - 0.5) * amp
Scatter(k, amp) == Mul(Rand(k) - Unit \div 2, amp)

\* lines 196-211: the target after the warp scatter and the expansion
Expanded(music, hand, au, t, tr, tgt, d) ==
  LET warp == (tr * 12) \div (TUnit \div Unit)
      wx == IF tr > 0 THEN tgt.x + Scatter(d[1], warp) ELSE tgt.x
      wy == IF tr > 0 THEN tgt.y + Scatter(d[2], warp) ELSE tgt.y
      wz == IF tr > 0 THEN tgt.z + Scatter(d[3], warp) ELSE tgt.z
      e == expansionFactor(music, hand, au, t)
  IN Vec(Mul(wx, e), Mul(wy, e), Mul(wz, e))

\* line 214: Math.sqrt(tx*tx + tz*tz)
Dist(tx, tz) == SqrtSearch(tx * tx + tz * tz, 0, 46340)

vortexDivisorBare(dist) == dist

\* line 220 (ParticleScene.tsx line 112): dist + 0.1
vortexDivisor(dist) == dist + 100

\* lines 196-249: the transformed target of particle i; cur is its position, tgt
\* its target, tr the transition after the decay, d the six draws of the particle
Transformed(music, hand, au, t, tr, cur, tgt, offset, d) ==
  LET ex == Expanded(music, hand, au, t, tr, tgt, d)
      tx == ex.x
      ty == ex.y
      tz == ex.z
      dist == Dist(tx, tz)
      spin == Mul(t, 200 + Mul(au.high, 500))
                + Mul(Div(Unit, vortexDivisor(dist)), vortexStrength(music, hand, au))
      rx == Mul(tx, Cos(spin)) - Mul(tz, Sin(spin))
      rz == Mul(tx, Sin(spin)) + Mul(tz, Cos(spin))
      amp == noiseAmp(music, hand, au)
      fluidX == Mul(Sin(Mul(t, 800) + Mul(cur.y, 500) + offset), amp)
      fluidY == Mul(Cos(Mul(t, 700) + Mul(cur.z, 500) + offset), amp)
      fluidZ == Mul(Sin(Mul(t, 900) + Mul(cur.x, 500) + offset), amp)
      jit == Mul(au.bass, 50)
      jx == IF au.bass > 300 THEN Scatter(d[4], jit) ELSE 0
      jy == IF au.bass > 300 THEN Scatter(d[5], jit) ELSE 0
      jz == IF au.bass > 300 THEN Scatter(d[6], jit) ELSE 0
  IN Vec(rx + fluidX + jx, ty + fluidY + jy, rz + fluidZ + jz)

\* lines 252-254
Integrate(cur, t, lerp) ==
  Vec(cur.x + Mul(t.x - cur.x, lerp), cur.y + Mul(t.y - cur.y, lerp),
      cur.z + Mul(t.z - cur.z, lerp))

\* the copy loop run from slot 1 upwards: every slot takes what slot 0 held
TrailForward(trail, newPos) ==
  [k \in 1..Len(trail) |->
     LET vertex == (k - 1) \div 3
     IN IF vertex % TRAIL_LENGTH = 0
          THEN Coord(newPos[vertex \div TRAIL_LENGTH + 1], (k - 1) % 3)
          ELSE trail[(vertex - (vertex % TRAIL_LENGTH)) * 3 + ((k - 1) % 3) + 1]]

\* lines 261-271: every trail moves one slot down, slot 0 takes the new position
TrailUpdate(trail, newPos) ==
  [k \in 1..Len(trail) |->
     LET vertex == (k - 1) \div 3
     IN IF vertex % TRAIL_LENGTH = 0
          THEN Coord(newPos[vertex \div TRAIL_LENGTH + 1], (k - 1) % 3)
          ELSE trail[k - 3]]

\* lines 274-289
ColorUpdate(cols, newPos, base, boost) ==
  [k \in 1..Len(cols) |->
     LET vertex == (k - 1) \div 3
         c == (k - 1) % 3
         p == newPos[vertex \div TRAIL_LENGTH + 1]
         fade == Unit - ((vertex % TRAIL_LENGTH) * Unit) \div TRAIL_LENGTH
         alpha == Mul(fade, fade)
         channel == IF c = 0 THEN base.r + Mul(p.x \div 5, 400) + boost
                    ELSE IF c = 1 THEN base.g + Mul(p.y \div 5, 400) + boost
                    ELSE base.b + Mul(p.z \div 5, 600) + boost
     IN Mul(channel, alpha)]

\* lines 94-294: what one frame at clock time t computes, for the draws d
\* (d[i] are the six draws of particle i - 1)
FrameOut(music, hand, au, t, tr, rot, mat, phys, trail, cols, targets, offsets, base, d) ==
  LET decayed == Decay(tr)
      newPos == [i \in 1..PARTICLE_COUNT |->
                   LET cur == PointAt(phys, i - 1)
                   IN Integrate(cur,
                                Transformed(music, hand, au, t, decayed, cur,
                                            PointAt(targets, i - 1), offsets[i], d[i]),
                                lerpBase(music, hand, au))]
  IN [rotation |-> Rotation(music, hand, au, t, rot),
      expansionFactor |-> expansionFactor(music, hand, au, t),
      lerpBase |-> lerpBase(music, hand, au),
      vortexStrength |-> vortexStrength(music, hand, au),
      noiseAmp |-> noiseAmp(music, hand, au),
      material |-> Material(music, hand, au, mat),
      transition |-> decayed,
      physicsPositions |-> ToArray(newPos),
      positions |-> TrailUpdate(trail, newPos),
      colors |-> ColorUpdate(cols, newPos, base, Mul(au.bass, 600) + Mul(au.high, 400))]

\* The draws of one frame: six for each particle.
DrawPatterns ==
  { <<3000, 3000, 3000, 3000, 3000, 3000>>, <<1500, 4500, 3000, 4500, 1500, 3000>> }

FrameDraws ==
  {[i \in 1..PARTICLE_COUNT |-> [j \in 1..6 |-> pat[((j + i) % 6) + 1]]] : pat \in DrawPatterns}

SteadyDraws ==
  [i \in 1..PARTICLE_COUNT |->
     [j \in 1..6 |-> <<1500, 4500, 3000, 4500, 1500, 3000>>[((j + i) % 6) + 1]]]

PoolDraws == {0, 2000}          \* Math.random() of part_000 line 128
ColorDraws == {0, 1000}         \* Math.random() of part_000 line 134
ColorInputs == {Bytes(255, 0, 170), Bytes(255, 255, 255)}   \* the colour input
ButtonTypes == {"Heart", "Galaxy", "Custom"}     \* the shape buttons pressed

\* part_000 line 86
isMusicMode == currentTrackIndex # NoTrack

\* The pending play() promises after the element was paused or given another
\* src: they can only be rejected.
Aborted(rs) == [k \in 1..Len(rs) |-> [rs[k] EXCEPT !.aborted = TRUE]]

\* The history of a step that takes `events` App events and `frames` frames.
Noted(step, events, frames) ==
  /\ lastStep' = step
  /\ eventsLeft' = eventsLeft - events
  /\ framesLeft' = framesLeft - frames
  /\ sinceChange' = IF currentShape' # currentShape THEN 0
                    ELSE IF frames > 0 /\ sinceChange >= 0 THEN sinceChange + 1
                    ELSE sinceChange

\* lines 13-15 of the overlay, and no save yet
DrawInit ==
  /\ paths = <<>> /\ currentPath = <<>> /\ isDrawing = FALSE
  /\ lastSave = [called |-> "none", samples |-> <<>>, paths |-> <<>>]

\* part_000 lines 68-83 and part_004 lines 14-17, with the track, the hand
\* snapshot and the analyser levels of the moment
AppInitRest(track, hand, levels) ==
  /\ color = COLORS[2]
  /\ handData = hand
  /\ playlist = (IF track = NoTrack THEN 0 ELSE track + 1)
  /\ currentTrackIndex = track
  /\ isInitialized = (track # NoTrack \/ levels # Silence)
  /\ audio = levels
  /\ dataArray \in (IF track # NoTrack \/ levels # Silence
                     THEN {d \in Analysed : getAudioData(d) = levels} ELSE {NoData})
  /\ isPlayingFile = (track # NoTrack)
  /\ oscillators = (IF track = NoTrack /\ levels # Silence THEN 3 ELSE 0)
  /\ droneGain = (track = NoTrack /\ levels # Silence)
  /\ audioElement = [src |-> track, paused |-> track = NoTrack]
  /\ requests = <<>>

\* part_001 lines 28-47: the refs of a mounted tracker; the handler it holds is
\* the one of the App's last render
TrackerInit ==
  /\ prevPosRef = [x |-> Unit \div 2, y |-> Unit \div 2]
  /\ prevOpennessRef = 0
  /\ wasOpenRef = FALSE
  /\ lastTriggerTimeRef = 0
  /\ latestOnGestureTrigger = isMusicMode
  /\ now = StartTime
  /\ nextShape = NoShape
  /\ warped = FALSE
  /\ isMountedRef = TRUE
  /\ handsRef = "open"
  /\ inFlight = 0
  /\ called = {}
  /\ peak = 0
  /\ held = FALSE

\* part_002 lines 26-82: the first render of ParticleMesh
MeshInit ==
  /\ physicsPositions \in generateParticles("Sphere", PARTICLE_COUNT, FirstDraws)
  /\ positions = StartTrail(physicsPositions)
  /\ colors = [k \in 1..(PARTICLE_COUNT * TRAIL_LENGTH * 3) |-> Unit]
  /\ randomOffsets = [i \in 1..PARTICLE_COUNT |-> RandTimes(1500, 2 * Pi)]
  /\ targetPositions \in Targets(currentShape, customPoints, FirstDraws)
  /\ transitionRef = 0
  /\ prevShapeRef = currentShape
  /\ rotation = [x |-> 0, y |-> 0]
  /\ material = [size |-> 60, opacity |-> 800]
  /\ time = 0

History(events, frames) ==
  /\ sinceChange = -1 /\ lastStep = "none"
  /\ eventsLeft = events /\ framesLeft = frames

\* part_002 lines 91-295: the frame callback, at the clock time time + Tick.
\* targetPositions is always an array, so the test of line 187 passes.
useFrame(d) ==
  /\ \E out \in {FrameOut(isMusicMode, handData, audio, time + Tick, transitionRef,
                          rotation, material, physicsPositions, positions, colors,
                          targetPositions, randomOffsets, Color(color), d)} :
       /\ rotation' = out.rotation
       /\ material' = out.material
       /\ transitionRef' = out.transition
       /\ physicsPositions' = out.physicsPositions
       /\ positions' = out.positions
       /\ colors' = out.colors
  /\ time' = time + Tick
  /\ UNCHANGED <<targetPositions, randomOffsets, prevShapeRef>>
  /\ UNCHANGED <<pvars, kvars, gvars, dvars, tvars, avars, uvars>>
  /\ Noted("frame", 0, 1)

frame ==
  /\ framesLeft > 0
  /\ \E d \in FrameDraws : useFrame(d)

\* A frame of a run of the decay: such a run takes its frames after a shape change.
steadyFrame ==
  /\ framesLeft > 0
  /\ sinceChange >= 0
  /\ useFrame(SteadyDraws)

\* part_000 lines 91-98: a click anywhere; init of part_004 lines 23-64
handleInteraction ==
  /\ eventsLeft > 0
  /\ init
  /\ UNCHANGED <<color, handData, playlist, currentTrackIndex, audio>>
  /\ UNCHANGED <<kvars, gvars, dvars, tvars, avars, mvars>>
  /\ Noted("event", 1, 0)

\* part_004 lines 180-196: the analyser's levels move with the sound
analyse ==
  /\ eventsLeft > 0
  /\ isInitialized
  /\ \E d \in Analysed :
       /\ getAudioData(d) # audio
       /\ dataArray' = d
       /\ audio' = getAudioData(d)
  /\ UNCHANGED <<color, handData, playlist, currentTrackIndex, isInitialized>>
  /\ UNCHANGED <<pvars, kvars, gvars, dvars, tvars, avars, mvars>>
  /\ Noted("event", 1, 0)

\* part_000 lines 112-119
handleHandUpdate(data) ==
  /\ eventsLeft > 0
  /\ handData' = data
  /\ UNCHANGED <<color, playlist, currentTrackIndex, isInitialized, audio, dataArray>>
  /\ UNCHANGED <<pvars, kvars, gvars, dvars, tvars, avars, mvars>>
  /\ Noted("event", 1, 0)

\* part_000 lines 121-137
handleGestureTrigger(D) ==
  /\ eventsLeft > 0
  /\ IF isMusicMode
       THEN UNCHANGED <<currentShape, color, mvars>>
       ELSE /\ \E k \in PoolDraws :
                 LET drawn == ROMANTIC_SHAPES[RandTimes(k, Len(ROMANTIC_SHAPES)) + 1]
                 IN /\ drawn # currentShape
                    /\ currentShape' = drawn
                    /\ Render(drawn, customPoints, FALSE, D)
            /\ \E c \in ColorDraws : color' = COLORS[RandTimes(c, Len(COLORS)) + 1]
  /\ UNCHANGED <<customPoints, showDrawingCanvas>>
  /\ UNCHANGED <<handData, playlist, currentTrackIndex, isInitialized, audio, dataArray>>
  /\ UNCHANGED <<pvars, kvars, gvars, dvars, tvars>>
  /\ Noted("event", 1, 0)

\* handleShapeSelect without the test of customPoints
handleShapeSelectAlways(type, D) ==
  /\ eventsLeft > 0
  /\ currentShape' = type
  /\ Render(type, customPoints, FALSE, D)
  /\ UNCHANGED <<customPoints, showDrawingCanvas>>
  /\ UNCHANGED <<pvars, kvars, gvars, dvars, tvars, uvars>>
  /\ Noted("event", 1, 0)

\* part_000 lines 149-160
handleShapeSelect(type, D) ==
  /\ eventsLeft > 0
  /\ IF type = "Custom" /\ customPoints = NoPoints
       THEN /\ showDrawingCanvas' = TRUE
            /\ UNCHANGED <<currentShape, mvars>>
       ELSE /\ currentShape' = type
            /\ Render(type, customPoints, FALSE, D)
            /\ UNCHANGED showDrawingCanvas
  /\ UNCHANGED customPoints
  /\ UNCHANGED <<pvars, kvars, gvars, dvars, tvars, uvars>>
  /\ Noted("event", 1, 0)

\* part_000 line 411: the Redraw button of the active CUSTOM shape
redraw ==
  /\ eventsLeft > 0
  /\ currentShape = "Custom"
  /\ showDrawingCanvas' = TRUE
  /\ UNCHANGED <<currentShape, customPoints>>
  /\ UNCHANGED <<pvars, kvars, gvars, dvars, tvars, uvars, mvars>>
  /\ Noted("event", 1, 0)

\* part_000 line 381: the colour input
setColor(c) ==
  /\ eventsLeft > 0
  /\ color' = c
  /\ UNCHANGED <<handData, playlist, currentTrackIndex, isInitialized, audio, dataArray>>
  /\ UNCHANGED <<pvars, kvars, gvars, dvars, tvars, avars, mvars>>
  /\ Noted("event", 1, 0)

\* part_000 lines 192-223: a file is chosen; ok: its playback starts
handleFileUpload(ok) ==
  /\ eventsLeft > 0
  /\ playlist < MaxTracks
  /\ playlist' = playlist + 1
  /\ currentTrackIndex' = IF ok THEN playlist ELSE currentTrackIndex
  /\ SetManager(playSettled(playStart(Manager, playlist), ok))
  /\ UNCHANGED <<color, handData, audio, requests>>
  /\ UNCHANGED <<kvars, gvars, dvars, tvars, avars, mvars>>
  /\ Noted("event", 1, 0)

\* part_000 lines 169-184; ok: the playback starts
playTrack(index, ok) ==
  /\ eventsLeft > 0
  /\ index < playlist
  /\ currentTrackIndex' = IF ok THEN index ELSE currentTrackIndex
  /\ SetManager(playSettled(playStart(Manager, index), ok))
  /\ UNCHANGED <<color, handData, playlist, audio, requests>>
  /\ UNCHANGED <<kvars, gvars, dvars, tvars, avars, mvars>>
  /\ Noted("event", 1, 0)

\* part_000 lines 186-190
stopMusic ==
  /\ eventsLeft > 0
  /\ isMusicMode
  /\ currentTrackIndex' = NoTrack
  /\ SetManager(stopAudio(Manager))
  /\ requests' = IF isInitialized /\ ~audioElement.paused THEN Aborted(requests)
                  ELSE requests
  /\ UNCHANGED <<color, handData, playlist, audio>>
  /\ UNCHANGED <<kvars, gvars, dvars, tvars, avars, mvars>>
  /\ Noted("event", 1, 0)

-----------------------------------------------------------------------------
(* The drawing overlay and the App's drawing handlers *)

\* The drawing saved before the run starts, if any: the output of processAndSave
\* for one stroke from (1,2) to (4,2), zero draws.
PriorDrawing ==
  LET samples == Walk(<< <<Pt(1 * Unit, 2 * Unit), Pt(4 * Unit, 2 * Unit)>> >>)
  IN Fill(Place(samples, [k \in 1..Len(samples) |-> 0]), Len(samples),
          [k \in 1..TargetCount |-> 0], 1)

\* The overlay is open on an empty canvas; there may be an earlier saved drawing,
\* and then the CUSTOM shape may be the active one.
AppInitDrawing ==
  /\ showDrawingCanvas = TRUE
  /\ customPoints \in {NoPoints, PriorDrawing}
  /\ currentShape \in (IF customPoints = NoPoints THEN {"Heart"} ELSE {"Heart", "Custom"})

DrawnPoints == Len(Flat(paths)) + Len(currentPath)

\* lines 100-105
startDrawing ==
  /\ showDrawingCanvas /\ DrawnPoints < MaxPoints
  /\ \E pos \in PixelPoints :
       /\ isDrawing' = TRUE
       /\ currentPath' = <<pos>>
  /\ UNCHANGED <<paths, lastSave, avars, notDraw>>

\* lines 107-131
draw ==
  /\ showDrawingCanvas /\ DrawnPoints < MaxPoints
  /\ isDrawing
  /\ \E pos \in PixelPoints : currentPath' = Append(currentPath, pos)
  /\ UNCHANGED <<paths, isDrawing, lastSave, avars, notDraw>>

\* lines 133-141
stopDrawing ==
  /\ showDrawingCanvas
  /\ isDrawing
  /\ paths' = IF Len(currentPath) > 0 THEN Append(paths, currentPath) ELSE paths
  /\ currentPath' = <<>>
  /\ isDrawing' = FALSE
  /\ UNCHANGED <<lastSave, avars, notDraw>>

\* lines 143-147
clearCanvas ==
  /\ showDrawingCanvas
  /\ paths' = <<>> /\ currentPath' = <<>>
  /\ UNCHANGED <<isDrawing, lastSave, avars, notDraw>>

\* The overlay is unmounted: its state is gone.
Unmount ==
  /\ paths' = <<>> /\ currentPath' = <<>> /\ isDrawing' = FALSE

\* part_000 line 263: onClose
onClose ==
  /\ showDrawingCanvas' = FALSE
  /\ UNCHANGED <<currentShape, customPoints, mvars>>

\* part_000 lines 162-167: handleSaveDrawing, the onSave of the overlay
handleSaveDrawing(points, D) ==
  /\ customPoints' = points
  /\ currentShape' = "Custom"
  /\ showDrawingCanvas' = FALSE
  /\ Render("Custom", points, TRUE, D)

\* DrawingCanvas.tsx line 273: the Cancel button
cancel ==
  /\ showDrawingCanvas
  /\ onClose /\ Unmount
  /\ UNCHANGED <<lastSave, pvars, kvars, gvars, uvars, tvars, hvars>>

\* lines 149-244
processAndSave ==
  /\ showDrawingCanvas
  /\ IF Degenerate(paths, currentPath)
       THEN /\ onClose
            /\ lastSave' = [called |-> "onClose", samples |-> <<>>, paths |-> paths]
       ELSE \E samples \in {Walk(paths)} :
              \E jz \in [1..Len(samples) -> JitterDraws],
                 fd \in [1..(TargetCount - Len(samples)) -> FillDraws] :
                /\ handleSaveDrawing(Fill(Place(samples, jz), Len(samples), fd, 1),
                                     FirstDraws)
                /\ lastSave' = [called |-> "onSave", samples |-> samples, paths |-> paths]
  /\ Unmount
  /\ UNCHANGED <<pvars, kvars, gvars, uvars, tvars>>
  /\ Noted("event", 0, 0)

DrawNext ==
  startDrawing \/ draw \/ stopDrawing \/ clearCanvas \/ cancel \/ processAndSave

InitDraw ==
  /\ GenInit /\ DrawInit /\ AppInitDrawing
  /\ AppInitRest(NoTrack, DefaultHand, Silence) /\ MeshInit /\ TrackerInit /\ History(0, 0)

SpecDraw == InitDraw /\ [][DrawNext]_vars

\* The drawings the overlay hands to onSave in a run of the scene.
Drawing(p) == [k \in 1..(PARTICLE_COUNT * 3) |-> Cell(Coord(p, (k - 1) % 3))]

SavedDrawings == {Drawing(Vec(Unit, 0, 0)), Drawing(Vec(0, Unit, 0)), PriorDrawing}

\* DrawingCanvas.tsx line 243: onSave(positions), for the positions of some drawing
saveDrawing(points, D) ==
  /\ eventsLeft > 0
  /\ showDrawingCanvas
  /\ handleSaveDrawing(points, D)
  /\ Unmount
  /\ UNCHANGED <<lastSave, pvars, kvars, gvars, uvars, tvars>>
  /\ Noted("event", 1, 0)

\* The overlay is closed; there may be an earlier saved drawing, and then the
\* CUSTOM shape may be the active one.
AppInitScene ==
  /\ showDrawingCanvas = FALSE
  /\ customPoints \in {NoPoints, Drawing(Vec(Unit, 0, 0))}
  /\ currentShape \in (IF customPoints = NoPoints THEN {"Heart"} ELSE {"Heart", "Custom"})

InitScene ==
  /\ GenInit /\ DrawInit /\ AppInitScene
  /\ AppInitRest(NoTrack, DefaultHand, Silence) /\ MeshInit /\ TrackerInit
  /\ History(MaxSceneEvents, MaxSceneFrames)

SceneNext ==
  \/ frame
  \/ handleInteraction
  \/ analyse
  \/ \E data \in HandSamples : handleHandUpdate(data)
  \/ handleGestureTrigger(SceneDraws)
  \/ \E type \in ButtonTypes : handleShapeSelect(type, SceneDraws)
  \/ redraw
  \/ \E points \in SavedDrawings : saveDrawing(points, SceneDraws)
  \/ cancel
  \/ \E c \in ColorInputs : setColor(c)
  \/ \E ok \in BOOLEAN : handleFileUpload(ok)
  \/ \E index \in 0..(MaxTracks - 1), ok \in BOOLEAN : playTrack(index, ok)
  \/ stopMusic

SpecScene == InitScene /\ [][SceneNext]_vars

\* part_000 lines 67-77: the App as constructed
AppInitIdle ==
  /\ showDrawingCanvas = FALSE /\ customPoints = NoPoints /\ currentShape = "Heart"

\* A run of the decay starts in gesture mode or with a track playing, whatever
\* the hand and the sound.
InitDecay ==
  /\ GenInit /\ DrawInit /\ AppInitIdle
  /\ \/ AppInitRest(NoTrack, DefaultHand, Silence)
     \/ AppInitRest(NoTrack, Hand(TRUE, Unit, Unit, 0), Levels(800, 500, 400))
     \/ \E levels \in AudioSamples : AppInitRest(0, DefaultHand, levels)
  /\ MeshInit /\ TrackerInit
  /\ History(MaxDecayEvents, MaxDecayFrames)

DecayNext ==
  \/ steadyFrame
  \/ handleShapeSelect("Galaxy", FirstDraws)
  \/ handleFileUpload(TRUE)
  \/ stopMusic

SpecDecay == InitDecay /\ [][DecayNext]_vars

\* A step that takes a frame: of DecayNext only steadyFrame is one
takesFrame ==
  /\ framesLeft > 0 /\ sinceChange >= 0
  /\ framesLeft' = framesLeft - 1

\* The frame loop calls the callback again as long as the mesh is mounted.
SpecSettle == InitDecay /\ [][DecayNext]_vars /\ WF_framesLeft(takesFrame)

-----------------------------------------------------------------------------
(* components/ParticleScene.tsx with App.tsx: the mesh without trails.  Its
   position attribute is the variable positions, of 3 * SceneCount cells. *)

\* ParticleScene.tsx lines 22-27: the values the memo targetPositions can take
sceneTargets(shape, points, D) ==
  IF shape = "Custom" /\ points # NoPoints
    THEN {[k \in 1..Len(points) |-> points[k].v]}
    ELSE generateParticles(shape, SceneCount, D)

\* A read of cell k - 1 of a Float32Array: undefined beyond its length, and
\* undefined is NaN in the arithmetic that follows.
At(arr, k) == IF k <= Len(arr) THEN arr[k] ELSE NaN

\* ParticleScene.tsx lines 76-78
lerpSpeed(hand, tr) ==
  IF tr > TUnit \div 10 THEN 150
  ELSE IF hand.gestureValue > 100 THEN 200 ELSE 120

\* ParticleScene.tsx lines 70 and 91-126: the transformed target of one particle;
\* tr is the transition after the decay, d the six draws of the particle
sceneTransformed(hand, t, tr, tgt, d) ==
  LET warp == (tr * 10) \div (TUnit \div Unit)
      wx == IF tr > 0 THEN tgt.x + Scatter(d[1], warp) ELSE tgt.x
      wy == IF tr > 0 THEN tgt.y + Scatter(d[2], warp) ELSE tgt.y
      wz == IF tr > 0 THEN tgt.z + Scatter(d[3], warp) ELSE tgt.z
      e == Unit + Mul(Pow15(hand.gestureValue), 3500)
      tx == Mul(wx, e)
      ty == Mul(wy, e)
      tz == Mul(wz, e)
      dist == Dist(tx, tz)
      spinSpeed == 200 + Mul(Div(Unit, vortexDivisor(dist)), 500)
      spin == Mul(Mul(t, spinSpeed), 500)
      rx == Mul(tx, Cos(spin)) - Mul(tz, Sin(spin))
      rz == Mul(tx, Sin(spin)) + Mul(tz, Cos(spin))
      noiseAmount == Mul(hand.gestureValue, 800)
      nx == IF noiseAmount > 10 THEN Scatter(d[4], noiseAmount) ELSE 0
      ny == IF noiseAmount > 10 THEN Scatter(d[5], noiseAmount) ELSE 0
      nz == IF noiseAmount > 10 THEN Scatter(d[6], noiseAmount) ELSE 0
  IN Vec(rx + nx, ty + ny, rz + nz)

\* ParticleScene.tsx lines 136-151: the colour of a particle at p
sceneColor(p, t, base, c) ==
  LET pulse == Mul(Sin(Mul(t, 3 * Unit) + Mul(p.y \div 5, 5 * Unit)) + Unit, 500)
  IN IF c = 0 THEN base.r + Mul(p.x \div 5, 500) + Mul(pulse, 200)
     ELSE IF c = 1 THEN base.g + Mul(p.y \div 5, 500) + Mul(pulse, 200)
     ELSE base.b + Mul(p.z \div 5, 800) + Mul(pulse, 500)

\* ParticleScene.tsx lines 64-159: what one frame at clock time t computes.  The
\* buffers hold whole points, so the three reads of lines 91-93 are all inside
\* the target buffer or all beyond it; NaN spreads through every sum and product.
sceneFrameOut(hand, t, tr, pos, targets, base, d) ==
  LET decayed == Decay(tr)
      newPos == [i \in 1..SceneCount |->
                   LET cur == PointAt(pos, i - 1)
                       tgt == Vec(At(targets, 3 * i - 2), At(targets, 3 * i - 1),
                                  At(targets, 3 * i))
                   IN IF tgt.x = NaN \/ tgt.y = NaN \/ tgt.z = NaN \/ cur.x = NaN
                        THEN Vec(NaN, NaN, NaN)
                        ELSE Integrate(cur, sceneTransformed(hand, t, decayed, tgt, d[i]),
                                       lerpSpeed(hand, tr))]
  IN [transition |-> decayed,
      positions |-> ToArray(newPos),
      colors |-> [k \in 1..(3 * SceneCount) |->
                    LET p == newPos[(k - 1) \div 3 + 1]
                    IN IF p.x = NaN THEN NaN ELSE sceneColor(p, t, base, (k - 1) % 3)],
      rotation |-> [x |-> 0, y |-> Mul(t, 50)]]

SceneFrameDraws ==
  {[i \in 1..SceneCount |-> [j \in 1..6 |-> pat[((j + i) % 6) + 1]]] : pat \in DrawPatterns}

\* ParticleScene.tsx lines 61-160: the frame callback; targetPositions is always
\* an array, so the test of line 86 passes
sceneFrame ==
  /\ framesLeft > 0
  /\ \E d \in SceneFrameDraws :
       \E out \in {sceneFrameOut(handData, time + Tick, transitionRef, positions,
                                 targetPositions, Color(color), d)} :
         /\ transitionRef' = out.transition
         /\ positions' = out.positions
         /\ colors' = out.colors
         /\ rotation' = out.rotation
  /\ time' = time + Tick
  /\ UNCHANGED <<targetPositions, physicsPositions, randomOffsets, prevShapeRef, material>>
  /\ UNCHANGED <<pvars, kvars, gvars, dvars, tvars, avars, uvars>>
  /\ Noted("frame", 0, 1)

\* ParticleScene.tsx lines 17-59: a render with the props currentShape = shape
\* and customPoints = points
sceneRender(shape, points, newPoints, D) ==
  /\ \E fresh \in (IF shape # currentShape \/ newPoints
                     THEN sceneTargets(shape, points, D) ELSE {targetPositions}) :
       targetPositions' = useMemo(targetPositions, shape # currentShape \/ newPoints, fresh)
  /\ positions' = useMemo(positions, FALSE, positions)
  /\ colors' = useMemo(colors, FALSE, colors)
  /\ transitionRef' = IF prevShapeRef # shape THEN TUnit ELSE useRef(transitionRef, 0)
  /\ prevShapeRef' = IF prevShapeRef # shape THEN shape ELSE useRef(prevShapeRef, shape)
  /\ UNCHANGED <<physicsPositions, randomOffsets, rotation, material, time>>

\* App.tsx lines 72-86
AppGestureTrigger(D) ==
  /\ eventsLeft > 0
  /\ \E k \in PoolDraws :
       LET drawn == ROMANTIC_SHAPES[RandTimes(k, Len(ROMANTIC_SHAPES)) + 1]
       IN /\ drawn # currentShape
          /\ currentShape' = drawn
          /\ sceneRender(drawn, customPoints, FALSE, D)
  /\ \E c \in ColorDraws : color' = COLORS[RandTimes(c, Len(COLORS)) + 1]
  /\ UNCHANGED <<customPoints, showDrawingCanvas>>
  /\ UNCHANGED <<handData, playlist, currentTrackIndex, isInitialized, audio, dataArray>>
  /\ UNCHANGED <<pvars, kvars, gvars, dvars, tvars>>
  /\ Noted("event", 1, 0)

\* App.tsx lines 98-108
AppShapeSelect(type, D) ==
  /\ eventsLeft > 0
  /\ IF type = "Custom" /\ customPoints = NoPoints
       THEN /\ showDrawingCanvas' = TRUE
            /\ UNCHANGED <<currentShape, mvars>>
       ELSE /\ currentShape' = type
            /\ sceneRender(type, customPoints, FALSE, D)
            /\ UNCHANGED showDrawingCanvas
  /\ UNCHANGED customPoints
  /\ UNCHANGED <<pvars, kvars, gvars, dvars, tvars, uvars>>
  /\ Noted("event", 1, 0)

\* App.tsx lines 110-114, called by the overlay with the positions of a drawing
\* (DrawingCanvas.tsx line 243)
AppSaveDrawing(points, D) ==
  /\ eventsLeft > 0
  /\ showDrawingCanvas
  /\ customPoints' = points
  /\ currentShape' = "Custom"
  /\ showDrawingCanvas' = FALSE
  /\ sceneRender("Custom", points, TRUE, D)
  /\ Unmount
  /\ UNCHANGED <<lastSave, pvars, kvars, gvars, uvars, tvars>>
  /\ Noted("event", 1, 0)

\* ParticleScene.tsx lines 17-59: the first render
sceneInit ==
  /\ positions \in generateParticles("Sphere", SceneCount, FirstDraws)
  /\ colors = [k \in 1..(3 * SceneCount) |-> Unit]
  /\ targetPositions \in sceneTargets(currentShape, customPoints, FirstDraws)
  /\ transitionRef = 0
  /\ prevShapeRef = currentShape
  /\ rotation = [x |-> 0, y |-> 0]
  /\ material = [size |-> 60, opacity |-> 900]
  /\ time = 0
  /\ physicsPositions = <<>> /\ randomOffsets = <<>>

InitParticleScene ==
  /\ GenInit /\ DrawInit /\ AppInitIdle
  /\ AppInitRest(NoTrack, DefaultHand, Silence) /\ sceneInit /\ TrackerInit
  /\ History(MaxSceneEvents, MaxSceneFrames)

ParticleSceneNext ==
  \/ sceneFrame
  \/ \E data \in HandSamples : handleHandUpdate(data)
  \/ AppGestureTrigger(FirstDraws)
  \/ \E type \in ButtonTypes : AppShapeSelect(type, FirstDraws)
  \/ AppSaveDrawing(PriorDrawing, FirstDraws)

SpecParticleScene == InitParticleScene /\ [][ParticleSceneNext]_vars

-----------------------------------------------------------------------------
(* The playback with its waits: playAudioUrl returns to the event loop at
   `await this.audioElement.play()` (part_004 line 118), and the App's
   continuation (part_000 lines 175-180, 205-212) runs when it settles.  Other
   handlers run in between. *)

Request(url) == [url |-> url, aborted |-> FALSE]

\* part_004 lines 105-118 for the track at index url: the call up to its wait.
\* Giving the element another src rejects the play() promises still pending.
playAudioUrl(url) ==
  /\ Len(requests) < MaxRequests
  /\ SetManager(playStart(Manager, url))
  /\ requests' = Append(Aborted(requests), Request(url))

\* part_000 lines 169-174: playTrack up to its wait
playTrackCall(index) ==
  /\ eventsLeft > 0
  /\ index < playlist
  /\ playAudioUrl(index)
  /\ UNCHANGED <<color, handData, playlist, currentTrackIndex, audio>>
  /\ UNCHANGED <<kvars, gvars, dvars, tvars, avars, mvars>>
  /\ Noted("event", 1, 0)

\* part_000 lines 192-204: handleFileUpload up to the wait of playAudioUrl
uploadCall ==
  /\ eventsLeft > 0
  /\ playlist < MaxUploads
  /\ playlist' = playlist + 1
  /\ playAudioUrl(playlist)
  /\ UNCHANGED <<color, handData, currentTrackIndex, audio>>
  /\ UNCHANGED <<kvars, gvars, dvars, tvars, avars, mvars>>
  /\ Noted("event", 1, 0)

Without(rs, k) == [j \in 1..(Len(rs) - 1) |-> IF j < k THEN rs[j] ELSE rs[j + 1]]

\* part_004 lines 119-131 and part_000 lines 175-183 (205-215): the play()
\* promise of the k-th waiting call settles; ok: it resolves.  A promise
\* rejected by a pause or a new src settles before any other does.
settle(k, ok) ==
  /\ eventsLeft > 0
  /\ k \in 1..Len(requests)
  /\ ok => ~requests[k].aborted
  /\ \A j \in 1..Len(requests) : requests[j].aborted => (requests[k].aborted /\ k <= j)
  /\ SetManager(playSettled(Manager, ok))
  /\ currentTrackIndex' = IF ok THEN requests[k].url ELSE currentTrackIndex
  /\ requests' = Without(requests, k)
  /\ UNCHANGED <<color, handData, playlist, audio>>
  /\ UNCHANGED <<kvars, gvars, dvars, tvars, avars, mvars>>
  /\ Noted("event", 1, 0)

InitPlayback ==
  /\ GenInit /\ DrawInit /\ AppInitIdle
  /\ AppInitRest(NoTrack, DefaultHand, Silence) /\ MeshInit /\ TrackerInit
  /\ History(MaxPlaybackEvents, 0)

PlaybackNext ==
  \/ handleInteraction
  \/ \E index \in 0..(MaxUploads - 1) : playTrackCall(index)
  \/ uploadCall
  \/ \E k \in 1..MaxRequests, ok \in BOOLEAN : settle(k, ok)
  \/ stopMusic

SpecPlayback == InitPlayback /\ [][PlaybackNext]_vars

-----------------------------------------------------------------------------
(* part_002 lines 251-254: the integration step alone, towards a transformed
   target (tx, ty, tz) that stays what it is.  targetPositions holds that
   target, the same for every particle. *)

OpennessGrid == {0, 1, 250, 500, 999, Unit}    \* gestureValue
BassBytes == {0, 1, 76, 77, 128, 255}          \* the byte of the bass bins
LerpStarts == {Vec(-2000, 0, 1500), Vec(3000, -1000, 7)}
LerpTargets == {Vec(0, 0, 0), Vec(1000, -500, 12)}

\* The smallest lerpBase is 0.08: a difference below 1 / 0.08 thousandths is
\* multiplied to less than one thousandth, the resolution of a stored number.
Resolution == Unit \div 80

InitLerp ==
  /\ GenInit /\ DrawInit /\ AppInitIdle
  /\ color = COLORS[2]
  /\ handData \in {Hand(g > Unit \div 2, g, Unit \div 2, Unit \div 2) : g \in OpennessGrid}
  /\ currentTrackIndex \in {NoTrack, 0}
  /\ playlist = (IF currentTrackIndex = NoTrack THEN 0 ELSE 1)
  /\ isInitialized = TRUE
  /\ dataArray \in {Spectrum(b, 0, 0) : b \in BassBytes}
  /\ audio = getAudioData(dataArray)
  /\ isPlayingFile = isMusicMode
  /\ oscillators = (IF isMusicMode THEN 0 ELSE 3)
  /\ droneGain = ~isMusicMode
  /\ audioElement = [src |-> currentTrackIndex, paused |-> ~isMusicMode]
  /\ requests = <<>>
  /\ \E s \in LerpStarts : physicsPositions = ToArray([i \in 1..PARTICLE_COUNT |-> s])
  /\ \E t \in LerpTargets : targetPositions = ToArray([i \in 1..PARTICLE_COUNT |-> t])
  /\ positions = StartTrail(physicsPositions)
  /\ colors = [k \in 1..(PARTICLE_COUNT * TRAIL_LENGTH * 3) |-> Unit]
  /\ randomOffsets = [i \in 1..PARTICLE_COUNT |-> RandTimes(1500, 2 * Pi)]
  /\ transitionRef = 0 /\ prevShapeRef = currentShape
  /\ rotation = [x |-> 0, y |-> 0]
  /\ material = [size |-> 80, opacity |-> 800]
  /\ time = 0
  /\ TrackerInit
  /\ History(0, 0)

\* lines 127, 148 and 251-254, for every particle
integrate ==
  /\ physicsPositions' =
       ToArray([i \in 1..PARTICLE_COUNT |->
                  Integrate(PointAt(physicsPositions, i - 1), PointAt(targetPositions, i - 1),
                            lerpBase(isMusicMode, handData, audio))])
  /\ UNCHANGED <<targetPositions, positions, colors, randomOffsets, transitionRef,
                 prevShapeRef, rotation, material, time>>
  /\ UNCHANGED <<pvars, kvars, gvars, dvars, tvars, avars, uvars>>
  /\ Noted("frame", 0, 0)

LerpNext == integrate

\* The frame loop runs the callback again and again.
SpecLerp == InitLerp /\ [][LerpNext]_vars /\ WF_vars(integrate)

-----------------------------------------------------------------------------
(* part_001 lines 1-342: the hand tracker, with the App of part_000 around it *)

\* The landmarks of one hand that onResults reads: 0, 12 and 9
Landmarks(wrist, middleTip, middleBase) ==
  [wrist |-> wrist, middleTip |-> middleTip, middleBase |-> middleBase]

\* results.multiHandLandmarks: no hand, an open hand, a fist, two hands apart
NoHands == <<>>
OpenHand == << Landmarks(Pt(500, 900), Pt(500, 400), Pt(500, 650)) >>
Fist == << Landmarks(Pt(500, 900), Pt(500, 800), Pt(500, 650)) >>
TwoHands == << Landmarks(Pt(350, 650), Pt(350, 400), Pt(350, 550)),
               Landmarks(Pt(650, 650), Pt(650, 400), Pt(650, 550)) >>
TrackerResults == {NoHands, OpenHand, Fist, TwoHands}

\* Date.now() between two results, in ms
ResultGaps == {500}

ClampNone(v) == v

\* Math.min(Math.max(v, 0), 1)
Clamp01(v) == Min(Max(v, 0), Unit)

\* lines 176-211: rawOpenness, rawX, rawY and hasHand of a result
Raw(hands) ==
  IF Len(hands) = 0 THEN [openness |-> 0, x |-> Unit \div 2, y |-> Unit \div 2, hasHand |-> FALSE]
  ELSE IF Len(hands) = 2
    THEN LET hand1 == hands[1].wrist
             hand2 == hands[2].wrist
         IN [openness |-> Clamp01(((SegLen(hand1, hand2) - 50) * 25) \div 10),
             x |-> (hand1.x + hand2.x) \div 2, y |-> (hand1.y + hand2.y) \div 2,
             hasHand |-> TRUE]
    ELSE [openness |-> Clamp01(((SegLen(hands[1].wrist, hands[1].middleTip) - 120) * 35) \div 10),
          x |-> hands[1].middleBase.x, y |-> hands[1].middleBase.y, hasHand |-> TRUE]

\* lines 214-222: prev + (target - prev) * alpha
Smooth(prev, target, alpha) == prev + Mul(target - prev, alpha)

\* lines 238-239 without the test of the time since the last trigger
FiresInWindow(wasOpen, smoothOpenness, elapsed) == wasOpen /\ smoothOpenness < 250

\* lines 229, 235, 238-239: wasOpenRef.current && isClosed, and the window
Fires(wasOpen, smoothOpenness, elapsed) ==
  wasOpen /\ smoothOpenness < 250 /\ elapsed > 450

processesAlways(mounted) == TRUE

\* lines 128-129: if (!isMountedRef.current) return
processes(mounted) == mounted

\* lines 127-253: one result of the tracker, gap ms after the one before.  The
\* handler the ref holds was made by a render in which isMusicMode was
\* latestOnGestureTrigger (part_000 lines 121-137): in music mode it returns at
\* once; otherwise it queues the updater of setCurrentShape, sets a colour and
\* plays the warp sound.  Then handleHandUpdate takes the snapshot.
onResults(hands, gap) ==
  /\ eventsLeft > 0
  /\ nextShape = NoShape
  /\ IF processes(isMountedRef)
       THEN LET raw == Raw(hands)
                smoothX == Smooth(prevPosRef.x, raw.x, 700)
                smoothY == Smooth(prevPosRef.y, raw.y, 700)
                targetOpenness == IF raw.hasHand THEN raw.openness ELSE 100
                smoothOpenness == Smooth(prevOpennessRef, targetOpenness, 600)
                wasOpen == wasOpenRef \/ smoothOpenness > 600
                fires == Fires(wasOpen, smoothOpenness, (now + gap) - lastTriggerTimeRef)
                handled == fires /\ ~latestOnGestureTrigger
            IN /\ prevPosRef' = [x |-> smoothX, y |-> smoothY]
               /\ prevOpennessRef' = smoothOpenness
               /\ now' = now + gap
               /\ lastTriggerTimeRef' = IF fires THEN now + gap ELSE lastTriggerTimeRef
               /\ wasOpenRef' = IF fires THEN FALSE ELSE wasOpen
               /\ nextShape' = IF handled THEN currentShape ELSE NoShape
               /\ IF handled
                    THEN \E c \in ColorDraws : color' = COLORS[RandTimes(c, Len(COLORS)) + 1]
                    ELSE UNCHANGED color
               /\ warped' = handled
               /\ handData' = Hand(smoothOpenness > 500, smoothOpenness, smoothX, smoothY)
               /\ called' = IF fires THEN {"onResults", "onGestureTrigger", "onHandUpdate"}
                            ELSE {"onResults", "onHandUpdate"}
               /\ peak' = IF fires THEN 0 ELSE Max(peak, smoothOpenness)
               /\ held' = \/ ~fires /\ wasOpen /\ smoothOpenness < 250
                          \/ held /\ "onGestureTrigger" \notin called
       ELSE /\ called' = {"onResults"}
            /\ UNCHANGED <<prevPosRef, prevOpennessRef, now, lastTriggerTimeRef, wasOpenRef,
                           nextShape, color, warped, handData, peak, held>>
  /\ UNCHANGED <<latestOnGestureTrigger, playlist, currentTrackIndex, isInitialized,
                 audio, dataArray, isMountedRef, handsRef>>
  /\ UNCHANGED <<pvars, gvars, dvars, avars, mvars>>
  /\ Noted("event", 1, 0)

\* The draws of part_000 line 128, one for every index of the pool
TriggerDraws == {750 * i : i \in 0..7}

\* part_000 lines 127-130: one turn of the loop of the updater
triggerDraw(k) ==
  /\ nextShape # NoShape
  /\ nextShape = currentShape
  /\ nextShape' = ROMANTIC_SHAPES[RandTimes(k, Len(ROMANTIC_SHAPES)) + 1]
  /\ UNCHANGED <<prevPosRef, prevOpennessRef, wasOpenRef, lastTriggerTimeRef,
                 latestOnGestureTrigger, now, warped>>
  /\ UNCHANGED <<pvars, kvars, gvars, dvars, avars, uvars, mvars, hvars>>

\* part_000 line 131: the updater returns and the App renders the new shape
triggerReturn ==
  /\ nextShape # NoShape
  /\ nextShape # currentShape
  /\ currentShape' = nextShape
  /\ Render(nextShape, customPoints, FALSE, FirstDraws)
  /\ nextShape' = NoShape
  /\ UNCHANGED <<prevPosRef, prevOpennessRef, wasOpenRef, lastTriggerTimeRef,
                 latestOnGestureTrigger, now, warped>>
  /\ UNCHANGED <<customPoints, showDrawingCanvas>>
  /\ UNCHANGED <<pvars, kvars, gvars, dvars, uvars>>
  /\ Noted("render", 0, 0)

\* part_001 lines 31-34: the effect that follows a render with a new handler
useEffect ==
  /\ nextShape = NoShape
  /\ latestOnGestureTrigger # isMusicMode
  /\ latestOnGestureTrigger' = isMusicMode
  /\ UNCHANGED <<prevPosRef, prevOpennessRef, wasOpenRef, lastTriggerTimeRef, now,
                 nextShape, warped>>
  /\ UNCHANGED <<pvars, kvars, gvars, dvars, avars, uvars, mvars, hvars>>

\* The App before the tracker's first result: any shape, of the pool or not
AppInitTracker ==
  /\ showDrawingCanvas = FALSE
  /\ customPoints \in {NoPoints, Drawing(Vec(Unit, 0, 0))}
  /\ currentShape \in (IF customPoints = NoPoints THEN {"Heart", "Saturn"} ELSE {"Custom"})

InitTracker ==
  /\ GenInit /\ DrawInit /\ AppInitTracker
  /\ AppInitRest(NoTrack, DefaultHand, Silence) /\ MeshInit /\ TrackerInit
  /\ History(MaxTrackerEvents, 0)

TrackerNext ==
  \/ \E hands \in TrackerResults, gap \in ResultGaps :
       onResults(hands, gap) /\ UNCHANGED inFlight
  \/ \E k \in TriggerDraws : triggerDraw(k)
  \/ triggerReturn
  \/ useEffect
  \/ nextShape = NoShape /\ handleFileUpload(TRUE)
  \/ nextShape = NoShape /\ stopMusic

\* The render that runs the updater follows the handler, Math.random() does not
\* return the index of the previous shape for ever, and the effect follows the
\* render.
SpecTracker ==
  /\ InitTracker /\ [][TrackerNext]_vars
  /\ WF_vars(triggerReturn)
  /\ SF_vars(\E k \in TriggerDraws : triggerDraw(k) /\ nextShape' # currentShape)
  /\ WF_vars(useEffect)

-----------------------------------------------------------------------------
(* The gesture alone: results of one hand, open or closed, at the rate of the
   camera (33 ms) or after a pause (500 ms). *)

GestureResults == {OpenHand, Fist}
GestureGaps == {33, 500}
GestureDraws == {0, 750}       \* Math.random() of part_000 line 128

InitGesture ==
  /\ GenInit /\ DrawInit /\ AppInitIdle
  /\ AppInitRest(NoTrack, DefaultHand, Silence) /\ MeshInit /\ TrackerInit
  /\ History(MaxGestureEvents, 0)

GestureNext ==
  \/ \E hands \in GestureResults, gap \in GestureGaps :
       onResults(hands, gap) /\ UNCHANGED inFlight
  \/ \E k \in GestureDraws : triggerDraw(k)
  \/ triggerReturn

SpecGesture == InitGesture /\ [][GestureNext]_vars

-----------------------------------------------------------------------------
(* The tracker and its cleanup: camera frames send images to the hands
   instance, results come back later, and the cleanup of the effect runs at
   any moment in between (part_001 lines 257-293). *)

\* lines 257-273: a camera frame arrives; camera.stop() does not take back a
\* frame that is already due, and a start() still waiting begins to deliver them
onFrame ==
  /\ eventsLeft > 0
  /\ nextShape = NoShape
  /\ IF isMountedRef /\ handsRef = "open"
       THEN /\ inFlight' = inFlight + 1
            /\ called' = {"onFrame", "send"}
       ELSE /\ called' = {"onFrame"}
            /\ UNCHANGED inFlight
  /\ UNCHANGED <<isMountedRef, handsRef, peak, held>>
  /\ UNCHANGED <<pvars, gvars, dvars, avars, uvars, tvars, mvars>>
  /\ Noted("event", 1, 0)

\* The result of an image sent earlier arrives
resultArrives ==
  /\ inFlight > 0
  /\ inFlight' = inFlight - 1
  /\ \E hands \in TrackerResults, gap \in ResultGaps : onResults(hands, gap)

\* lines 261-270: the send of an image fails once the instance is closed, and
\* the catch block drops the error
sendRejected ==
  /\ eventsLeft > 0
  /\ inFlight > 0 /\ handsRef = "null"
  /\ inFlight' = inFlight - 1
  /\ called' = {"onFrame"}
  /\ UNCHANGED <<isMountedRef, handsRef, peak, held>>
  /\ UNCHANGED <<pvars, gvars, dvars, avars, uvars, tvars, mvars>>
  /\ Noted("event", 1, 0)

\* lines 283-292: the cleanup of the effect, after the render that follows a
\* trigger
cleanup ==
  /\ eventsLeft > 0
  /\ nextShape = NoShape
  /\ isMountedRef
  /\ isMountedRef' = FALSE
  /\ handsRef' = "null"
  /\ called' = {"stop", "close"}
  /\ UNCHANGED <<inFlight, peak, held>>
  /\ UNCHANGED <<pvars, gvars, dvars, avars, uvars, tvars, mvars>>
  /\ Noted("event", 1, 0)

InitUnmount ==
  /\ GenInit /\ DrawInit /\ AppInitIdle
  /\ AppInitRest(NoTrack, DefaultHand, Silence) /\ MeshInit /\ TrackerInit
  /\ History(MaxUnmountEvents, 0)

UnmountNext ==
  \/ onFrame
  \/ resultArrives
  \/ sendRejected
  \/ cleanup
  \/ \E k \in GestureDraws : triggerDraw(k)
  \/ triggerReturn

SpecUnmount == InitUnmount /\ [][UnmountNext]_vars

-----------------------------------------------------------------------------
(* part_004: the AudioManager's analyser, polled before and after init *)

ByteGrid == {0, 1, 127, 255}

\* data with the bins 200..255 set to v
WithTail(data, v) == [k \in 1..Len(data) |-> IF k > 200 THEN v ELSE data[k]]

\* What getByteFrequencyData can write: constant bands, a loud or silent tail
\* and an array that differs from bin to bin
ByteContents ==
  {WithTail(Spectrum(b, m, h), t) : b \in ByteGrid, m \in ByteGrid, h \in ByteGrid,
                                    t \in {0, 255}}
  \cup {[k \in 1..frequencyBinCount |-> (k * 37) % 256]}

\* part_004 lines 180-196: a call of getAudioData; the analyser, when there is
\* one, writes content into dataArray first
poll(content) ==
  /\ dataArray' = IF isInitialized THEN content ELSE dataArray
  /\ audio' = getAudioData(dataArray')
  /\ UNCHANGED <<color, handData, playlist, currentTrackIndex, isInitialized>>
  /\ UNCHANGED <<pvars, kvars, gvars, dvars, tvars, avars, mvars>>
  /\ Noted("poll", 0, 0)

InitAudio ==
  /\ GenInit /\ DrawInit /\ AppInitIdle
  /\ AppInitRest(NoTrack, DefaultHand, Silence) /\ MeshInit /\ TrackerInit
  /\ History(MaxSceneEvents, 0)

AudioNext ==
  \/ handleInteraction
  \/ \E content \in ByteContents : poll(content)

SpecAudio == InitAudio /\ [][AudioNext]_vars

-----------------------------------------------------------------------------
(* part_002 lines 251-271: integration and trail update alone, for
   TrailParticles particles that start apart and move to targets that stay. *)

TrailStarts == {Vec(-2000, 0, 1500), Vec(3000, -1000, 7), Vec(100, 200, 300)}

\* lines 66-71: every slot of a particle's trail starts at its position
TrailOf(startPos) ==
  [k \in 1..(TrailParticles * TRAIL_LENGTH * 3) |->
     startPos[((k - 1) \div (3 * TRAIL_LENGTH)) * 3 + ((k - 1) % 3) + 1]]

InitTrail ==
  /\ GenInit /\ DrawInit /\ AppInitIdle
  /\ AppInitRest(NoTrack, DefaultHand, Silence)
  /\ \E s \in [1..TrailParticles -> TrailStarts] : physicsPositions = ToArray(s)
  /\ \E t \in [1..TrailParticles -> LerpTargets] : targetPositions = ToArray(t)
  /\ positions = TrailOf(physicsPositions)
  /\ colors = [k \in 1..(TrailParticles * TRAIL_LENGTH * 3) |-> Unit]
  /\ randomOffsets = [i \in 1..TrailParticles |-> RandTimes(1500, 2 * Pi)]
  /\ transitionRef = 0 /\ prevShapeRef = currentShape
  /\ rotation = [x |-> 0, y |-> 0]
  /\ material = [size |-> 80, opacity |-> 800]
  /\ time = 0
  /\ TrackerInit
  /\ History(0, MaxTrailFrames)

\* lines 251-271, for every particle
trailFrame ==
  /\ framesLeft > 0
  /\ LET newPos == [i \in 1..TrailParticles |->
                      Integrate(PointAt(physicsPositions, i - 1),
                                PointAt(targetPositions, i - 1),
                                lerpBase(isMusicMode, handData, audio))]
     IN /\ physicsPositions' = ToArray(newPos)
        /\ positions' = TrailUpdate(positions, newPos)
  /\ time' = time + Tick
  /\ UNCHANGED <<targetPositions, colors, randomOffsets, transitionRef, prevShapeRef,
                 rotation, material>>
  /\ UNCHANGED <<pvars, kvars, gvars, dvars, tvars, avars, uvars>>
  /\ Noted("frame", 0, 1)

TrailNext == trailFrame

SpecTrail == InitTrail /\ [][TrailNext]_vars

InitGen ==
  /\ GenInit /\ DrawInit /\ AppInitIdle
  /\ AppInitRest(NoTrack, DefaultHand, Silence) /\ MeshInit /\ TrackerInit /\ History(0, 0)

SpecGen == InitGen /\ [][GenNext]_vars

(* C1: for every shape identifier and every count >= 0, the buffer that
   generateParticles returns has exactly 3 * count cells, every one of them
   assigned by the sampling loop; with count = 0 it is empty. *)
C1_ExactLength ==
  gPc = "done" =>
    /\ Len(gPositions) = 3 * gCount
    /\ \A k \in 1..Len(gPositions) : gPositions[k].w
    /\ (gCount = 0 => gPositions = <<>>)

C1_Witness ==
  /\ gPc = "done" /\ gCount = MaxCount /\ gShape = "Custom"
  /\ Len(gPositions) = 3 * MaxCount

C1_WitnessEmpty == gPc = "done" /\ gCount = 0 /\ gShape = "Sphere"

(* C2: no call of generateParticles ends in an error state, and an iteration
   for an identifier that matches no case of the switch samples its point by
   getRandomPointInSphere(3), the call the SPHERE case makes, and stores the
   point that call returned. *)
C2_FallbackSphere ==
  /\ gPc \in {"idle", "loop", "heart", "done"}
  /\ (gI > 0 /\ gShape \in {Unrecognized, "Sphere"}) =>
       /\ gCall = [fn |-> "getRandomPointInSphere", arg |-> 3 * Unit]
       /\ Vec(gPositions[3 * gI - 2].v, gPositions[3 * gI - 1].v, gPositions[3 * gI].v)
            \in SpherePoints(3 * Unit)

C2_Witness ==
  /\ gPc = "done" /\ gShape = Unrecognized /\ gCount = MaxCount
  /\ gCall.fn = "getRandomPointInSphere"

(* C3: every point getVolumetricHeartPoint returns comes from a candidate
   (x, y, z) of the cube [-1.5, 1.5]^3 that satisfies the heart inequality
   (result < 0): undoing the scaling and the swap of y and z gives such a
   candidate. *)
C3_HeartAccepted ==
  hRet.valid =>
    LET x == Div(hRet.p.x, hRet.scale)
        y == Div(hRet.p.z, hRet.scale)
        z == Div(hRet.p.y, hRet.scale)
        half == (3 * Unit) \div 2
    IN /\ MultiplyScalar(Vec(x, z, y), hRet.scale) = hRet.p
       /\ \A c \in {x, y, z} : -half <= c /\ c <= half
       /\ HeartResult(x, y, z) < 0

C3_Witness ==
  /\ hRet.valid /\ hRejected /\ gPc = "loop"
  /\ hRet.p.y # hRet.p.z


(* C4: for a drawing with at least 2 points over its committed strokes,
   processAndSave hands onSave exactly TargetCount points, each of them a
   sample placed on a stroke or a copy of one: no cell of the saved buffer is
   left at the zero it was allocated with. *)
C4_AllFilled ==
  lastSave.called = "onSave" =>
    /\ Len(customPoints) = 3 * TargetCount
    /\ \A k \in 1..Len(customPoints) : customPoints[k].w

(* C4, where the drawing has some length: then every cell is filled. *)
C4_FilledWhenLong ==
  (lastSave.called = "onSave" /\ TotalLength(lastSave.paths) > 0) =>
    /\ Len(customPoints) = 3 * TargetCount
    /\ \A k \in 1..Len(customPoints) : customPoints[k].w

(* C5: when two committed strokes have lengths in ratio 2:1, the numbers of
   samples the walk places on them differ from the ratio 2:1 by at most 1; and
   a drawing of two strokes of lengths L and 3L gets the quarter and the three
   quarters of TargetCount, rounded down (100 and 300 of 400). *)
C5_Proportional ==
  lastSave.called = "onSave" =>
    LET ps == lastSave.paths
        len == [k \in 1..Len(ps) |-> PathLength(ps[k])] \o <<>>
        placed == [k \in 1..Len(ps) |-> PlacedOn(lastSave.samples, k)] \o <<>>
    IN /\ \A a \in 1..Len(ps), b \in 1..Len(ps) :
            (len[b] > 0 /\ len[a] = 2 * len[b]) =>
              Abs(placed[a] - 2 * placed[b]) <= 1
       /\ (Len(ps) = 2 /\ len[1] > 0 /\ len[2] = 3 * len[1]) =>
              /\ placed[1] = TargetCount \div 4
              /\ placed[2] = (3 * TargetCount) \div 4

C5_Witness ==
  /\ lastSave.called = "onSave" /\ Len(lastSave.paths) = 2
  /\ PathLength(lastSave.paths[1]) = Unit
  /\ PathLength(lastSave.paths[2]) = 2 * Unit
  /\ PlacedOn(lastSave.samples, 1) >= 1
  /\ PlacedOn(lastSave.samples, 2) >= 2 * PlacedOn(lastSave.samples, 1)

C5_WitnessExample ==
  /\ lastSave.called = "onSave" /\ Len(lastSave.paths) = 2
  /\ PathLength(lastSave.paths[1]) = Unit
  /\ PathLength(lastSave.paths[2]) = 3 * Unit

(* C6: a processAndSave on a drawing with no committed stroke, or with fewer
   than 2 points over its committed strokes, calls onClose and not onSave: the
   overlay closes, customPoints and currentShape stay as they were. *)
C6_DegenerateCloses ==
  [][(lastSave' # lastSave /\ Len(Flat(paths)) < 2) =>
       /\ lastSave'.called = "onClose"
       /\ customPoints' = customPoints
       /\ currentShape' = currentShape
       /\ showDrawingCanvas /\ ~showDrawingCanvas']_vars

C6_Witness ==
  /\ lastSave.called = "onClose" /\ Len(Flat(lastSave.paths)) = 1
  /\ customPoints = PriorDrawing /\ currentShape = "Heart"
  /\ ~showDrawingCanvas

(* C7: every step that changes the active shape or the target buffer leaves the
   transition intensity at 1.0, so the next frame finds it there; this includes
   saving a new drawing while the CUSTOM shape is already the active one. *)
C7_TransitionOnChange ==
  [][(currentShape' # currentShape \/ targetPositions' # targetPositions) =>
       transitionRef' = TUnit]_vars

(* C7, for the changes of the active shape alone: these set the intensity. *)
C7_OnShapeChange ==
  [][currentShape' # currentShape => transitionRef' = TUnit]_vars

RECURSIVE Pow92(_)
Pow92(k) == IF k = 0 THEN TUnit ELSE (Pow92(k - 1) * 92) \div 100

(* C8: k frames after the last change of the active shape the transition
   intensity is 0.92^k if that is at least 0.01 and 0 otherwise, in either
   control mode and whatever the hand, the sound and the events in between. *)
C8_GeometricDecay ==
  sinceChange >= 0 =>
    transitionRef = (IF Pow92(sinceChange) >= TUnit \div 100 THEN Pow92(sinceChange)
                     ELSE 0)

C8_Witness ==
  /\ sinceChange = 56 /\ transitionRef = 0
  /\ isMusicMode /\ handData = Hand(TRUE, Unit, Unit, 0)
  /\ eventsLeft = 0

(* C9: in music mode a frame computes the same expansion factor, vortex
   strength, noise amplitude, lerp fraction, rotation and particle positions
   (current and trail) whatever the hand snapshot, from the same state, clock
   time, sound levels and random draws. *)
C9_GestureIgnored ==
  isMusicMode =>
    \A hand \in HandSamples, d \in FrameDraws :
      LET with(h) == FrameOut(isMusicMode, h, audio, time + Tick, transitionRef,
                              rotation, material, physicsPositions, positions, colors,
                              targetPositions, randomOffsets, Color(color), d)
          a == with(hand)
          b == with(handData)
      IN /\ a.expansionFactor = b.expansionFactor
         /\ a.vortexStrength = b.vortexStrength
         /\ a.noiseAmp = b.noiseAmp
         /\ a.lerpBase = b.lerpBase
         /\ a.rotation = b.rotation
         /\ a.physicsPositions = b.physicsPositions
         /\ a.positions = b.positions

C9_Witness ==
  /\ isMusicMode /\ lastStep = "frame"
  /\ handData = Hand(TRUE, Unit, Unit, 0)
  /\ physicsPositions # ToArray([i \in 1..PARTICLE_COUNT |-> PointAt(positions, TRAIL_LENGTH * i - 1)])

(* C10: only a frame writes the current positions and the trails: a step that
   is no frame (a mode switch, a shape change, a saved drawing, a new colour,
   any other event) leaves both buffers as the last frame left them. *)
C10_BuffersFrameOnly ==
  [][framesLeft' = framesLeft =>
       /\ physicsPositions' = physicsPositions
       /\ positions' = positions]_vars

C10_Witness ==
  /\ lastStep = "event" /\ framesLeft < MaxSceneFrames
  /\ sinceChange = 0 /\ transitionRef = TUnit
  /\ PointAt(positions, 0) = PointAt(physicsPositions, 0)
  /\ PointAt(positions, 1) # PointAt(physicsPositions, 0)

(* C11: a frame that finds a target buffer whose length is not 3 times the
   particle count leaves every particle where it was, and reads no cell of the
   target buffer at or beyond its length (such a read yields NaN). *)
C11_SkipsOnMismatch ==
  [][(framesLeft' < framesLeft /\ Len(targetPositions) # 3 * SceneCount) =>
       /\ positions' = positions
       /\ \A k \in 1..Len(positions') : positions'[k] # NaN]_vars

(* C12: the target buffer, the position buffer and the colour buffer of the
   mesh without trails all have 3 * SceneCount cells, in every state. *)
C12_EqualLengths ==
  /\ Len(targetPositions) = 3 * SceneCount
  /\ Len(positions) = 3 * SceneCount
  /\ Len(colors) = 3 * SceneCount

(* C12, for the mesh with trails (part_002): there the lengths agree, because
   the memo resamples a drawing of another length. *)
C12_MeshLengths ==
  /\ Len(targetPositions) = 3 * PARTICLE_COUNT
  /\ Len(physicsPositions) = 3 * PARTICLE_COUNT
  /\ Len(positions) = 3 * PARTICLE_COUNT * TRAIL_LENGTH
  /\ Len(colors) = 3 * PARTICLE_COUNT * TRAIL_LENGTH

(* C13: for every gestureValue and bass in [0, 1], in both modes, the lerp
   fraction lies strictly between 0 and 1; with the transformed target held
   constant a step never moves a coordinate away from the target nor across it,
   moves it strictly closer while the difference times the fraction is at least
   the resolution of a stored number, and the distance ends below that
   resolution for good. *)
C13_LerpConverges ==
  /\ [](/\ 0 < lerpBase(isMusicMode, handData, audio)
        /\ lerpBase(isMusicMode, handData, audio) < Unit)
  /\ [][\A k \in 1..Len(physicsPositions) :
          LET before == targetPositions[k] - physicsPositions[k]
              after == targetPositions[k] - physicsPositions'[k]
          IN /\ Abs(after) <= Abs(before)
             /\ before * after >= 0
             /\ Abs(before) * lerpBase(isMusicMode, handData, audio) >= Unit =>
                  Abs(after) < Abs(before)]_vars
  /\ <>[](\A k \in 1..Len(physicsPositions) :
            Abs(targetPositions[k] - physicsPositions[k]) <= Resolution)

C13_Witness ==
  /\ lastStep = "frame"
  /\ isMusicMode /\ audio.bass = Unit
  /\ Abs(targetPositions[1] - physicsPositions[1]) > Resolution
  /\ Abs(targetPositions[1] - physicsPositions[1]) < Unit

(* C14: in gesture mode with gestureValue 0 and no audio energy the expansion
   factor converges to 1.0: by the time the transition of the last shape change
   has run out (56 frames), it is within 0.02 of 1.0. *)
C14_ExpansionSettles ==
  (/\ ~isMusicMode /\ handData.gestureValue = 0 /\ audio = Silence
   /\ lastStep = "frame" /\ sinceChange >= 0 /\ transitionRef = 0) =>
    Abs(expansionFactor(isMusicMode, handData, audio, time) - Unit) <= Unit \div 50

RomanticPool ==
  {"Heart", "Double Heart", "Galaxy", "DNA", "Ring", "Butterfly", "I Love U", "Fireworks"}

(* C15: the updater of a gesture trigger returns a shape of the romantic pool
   that differs from the previous shape (so never CUSTOM, SPHERE, FLOWER, SATURN
   or BUDDHA), and its loop ends, whatever the previous shape was. *)
C15_TriggerChangesShape ==
  /\ [][(nextShape # NoShape /\ nextShape' = NoShape) =>
          /\ currentShape' # currentShape
          /\ currentShape' \in RomanticPool]_vars
  /\ (nextShape # NoShape) ~> (nextShape = NoShape)

C15_Witness ==
  /\ lastStep = "render"
  /\ currentShape \in RomanticPool
  /\ prevShapeRef = currentShape /\ transitionRef = TUnit

(* C16: a result of the tracker delivered in music mode changes neither the
   shape nor the colour, queues no change of shape and plays no warp sound. *)
C16_MusicIgnoresTrigger ==
  [][(isMusicMode /\ now' # now) =>
       /\ currentShape' = currentShape /\ color' = color
       /\ nextShape' = NoShape /\ ~warped']_vars

(* C16, once the effect of part_001 lines 31-34 has run: the same, for a result
   delivered while the ref holds the handler of the last render. *)
C16_SyncedIgnores ==
  [][(isMusicMode /\ latestOnGestureTrigger = isMusicMode /\ now' # now) =>
       /\ currentShape' = currentShape /\ color' = color
       /\ nextShape' = NoShape /\ ~warped']_vars

(* C17: every snapshot the tracker delivers has gestureValue in [0, 1] and
   isOpen true exactly when gestureValue > 0.5. *)
C17_SnapshotInRange ==
  /\ 0 <= handData.gestureValue /\ handData.gestureValue <= Unit
  /\ handData.isOpen <=> handData.gestureValue > Unit \div 2

C17_Witness ==
  /\ lastStep = "event" /\ now > StartTime
  /\ handData.gestureValue > Unit \div 2 /\ handData.gestureValue < Unit
  /\ handData.isOpen

(* C18: the levels getAudioData returns lie in [0, 1] whatever the byte array
   holds, depend on the bins 0..199 alone, which the array has, and are all 0
   while the audio system is not initialised. *)
C18_LevelsInRange ==
  /\ \A band \in {"bass", "mid", "high"} : 0 <= audio[band] /\ audio[band] <= Unit
  /\ ~isInitialized => audio = Silence /\ dataArray = NoData
  /\ isInitialized =>
       /\ Len(dataArray) = frequencyBinCount /\ 200 <= Len(dataArray)
       /\ audio = getAudioData(WithTail(dataArray, 0))

C18_Witness ==
  /\ lastStep = "poll" /\ isInitialized
  /\ dataArray[1] = 255 /\ dataArray[201] = 255
  /\ audio = Levels(Unit, 0, (Unit * 127) \div 255)

(* C19: the number of samples a stroke of at least two points gets is
   floor(strokeLength / totalLength * targetCount). *)
C19_FloorShare ==
  lastSave.called = "onSave" =>
    LET ps == lastSave.paths
        len == [k \in 1..Len(ps) |-> PathLength(ps[k])] \o <<>>
        total == SumSeq(len)
        placed == [k \in 1..Len(ps) |-> PlacedOn(lastSave.samples, k)] \o <<>>
    IN total > 0 =>
         \A k \in 1..Len(ps) :
           Len(ps[k]) >= 2 => placed[k] = (len[k] * TargetCount) \div total

(* C19 as stated: the number of samples a stroke gets is
   round(strokeLength / totalLength * targetCount). *)
C19_RoundShare ==
  lastSave.called = "onSave" =>
    LET ps == lastSave.paths
        len == [k \in 1..Len(ps) |-> PathLength(ps[k])] \o <<>>
        total == SumSeq(len)
        placed == [k \in 1..Len(ps) |-> PlacedOn(lastSave.samples, k)] \o <<>>
    IN total > 0 =>
         \A k \in 1..Len(ps) :
           Len(ps[k]) >= 2 => placed[k] = (2 * len[k] * TargetCount + total) \div (2 * total)

C19_Witness ==
  /\ lastSave.called = "onSave" /\ Len(lastSave.paths) = 2
  /\ PathLength(lastSave.paths[1]) = 2 * Unit
  /\ PathLength(lastSave.paths[2]) = Unit
  /\ PlacedOn(lastSave.samples, 1) = (2 * TargetCount) \div 3
  /\ PlacedOn(lastSave.samples, 2) = TargetCount \div 3

(* C20: in gesture mode no random jitter is added to a target, whatever the
   bass: with no transition running (the only other use of Math.random() in the
   frame), the positions a frame computes are the same for all draws. *)
C20_NoJitterInGesture ==
  (~isMusicMode /\ transitionRef = 0) =>
    \A d1 \in FrameDraws, d2 \in FrameDraws :
      FrameOut(isMusicMode, handData, audio, time + Tick, transitionRef, rotation,
               material, physicsPositions, positions, colors, targetPositions,
               randomOffsets, Color(color), d1).physicsPositions
        = FrameOut(isMusicMode, handData, audio, time + Tick, transitionRef, rotation,
                   material, physicsPositions, positions, colors, targetPositions,
                   randomOffsets, Color(color), d2).physicsPositions

(* C20, for a bass of at most 0.3: no jitter in either mode. *)
C20_NoJitterWhenQuiet ==
  (audio.bass <= 300 /\ transitionRef = 0) =>
    \A d1 \in FrameDraws, d2 \in FrameDraws :
      FrameOut(isMusicMode, handData, audio, time + Tick, transitionRef, rotation,
               material, physicsPositions, positions, colors, targetPositions,
               randomOffsets, Color(color), d1).physicsPositions
        = FrameOut(isMusicMode, handData, audio, time + Tick, transitionRef, rotation,
                   material, physicsPositions, positions, colors, targetPositions,
                   randomOffsets, Color(color), d2).physicsPositions

\* The cell of coordinate c (0, 1, 2) in slot t of the trail of particle i (from 1)
Slot(i, t, c) == ((i - 1) * TRAIL_LENGTH + t) * 3 + c + 1

(* C21: a frame moves the trail of every particle by one slot: afterwards slot
   t (1 <= t <= 4) of particle i holds what slot t - 1 of particle i held
   before and slot 0 the newly integrated position of particle i; the buffers
   keep their lengths, so nothing outside a particle's own block is written. *)
C21_TrailShifts ==
  [][framesLeft' < framesLeft =>
       /\ Len(positions') = Len(positions)
       /\ Len(positions') = TrailParticles * TRAIL_LENGTH * 3
       /\ \A i \in 1..TrailParticles, c \in 0..2 :
            /\ positions'[Slot(i, 0, c)] = physicsPositions'[3 * (i - 1) + c + 1]
            /\ \A t \in 1..(TRAIL_LENGTH - 1) :
                 positions'[Slot(i, t, c)] = positions[Slot(i, t - 1, c)]]_vars

\* Five frames on: the five slots of particle 1 differ from one another and
\* from the slots of particle 2.
C21_Witness ==
  /\ framesLeft <= MaxTrailFrames - 5
  /\ \A t \in 0..(TRAIL_LENGTH - 2) : positions[Slot(1, t, 0)] # positions[Slot(1, t + 1, 0)]
  /\ \A t \in 0..(TRAIL_LENGTH - 1) : positions[Slot(1, t, 0)] # positions[Slot(2, t, 0)]

(* C22: in every state, for every particle and every draw of the next frame,
   the divisor of the vortex term is at least 0.1, so never zero; this holds
   for a target on the vertical axis too, where it is exactly 0.1. *)
C22_DivisorPositive ==
  \A i \in 1..PARTICLE_COUNT, d \in FrameDraws :
    LET ex == Expanded(isMusicMode, handData, audio, time + Tick, Decay(transitionRef),
                       PointAt(targetPositions, i - 1), d[i])
    IN vortexDivisor(Dist(ex.x, ex.z)) >= 100

\* A target on the vertical axis, away from the origin
C22_Witness ==
  /\ targetPositions[1] = 0 /\ targetPositions[3] = 0 /\ targetPositions[2] # 0
  /\ currentShape = "Custom"
  /\ \E d \in FrameDraws :
       LET ex == Expanded(isMusicMode, handData, audio, time + Tick, Decay(transitionRef),
                          PointAt(targetPositions, 0), d[1])
       IN vortexDivisor(Dist(ex.x, ex.z)) = 100

(* C23: while a transition is in progress the lerp fraction of the next frame
   is at least the fraction the same hand would get when settled, and a more
   open hand never gets a smaller fraction. *)
C23_TransitionNotSlower ==
  /\ transitionRef > 0 => lerpSpeed(handData, transitionRef) >= lerpSpeed(handData, 0)
  /\ \A other \in HandSamples :
       other.gestureValue >= handData.gestureValue =>
         lerpSpeed(other, transitionRef) >= lerpSpeed(handData, transitionRef)

(* C23, for the mesh with trails (part_002): its fraction does not depend on
   the transition, and does not decrease as openness or bass increases. *)
C23_MeshLerp ==
  \A music \in BOOLEAN, g1 \in OpennessGrid, g2 \in OpennessGrid, b1 \in BassBytes,
     b2 \in BassBytes :
    (g1 <= g2 /\ b1 <= b2) =>
      lerpBase(music, Hand(FALSE, g1, 0, 0), getAudioData(Spectrum(b1, 0, 0)))
        <= lerpBase(music, Hand(FALSE, g2, 0, 0), getAudioData(Spectrum(b2, 0, 0)))

(* C24: the transition intensity is 0 or within [0.01, 1] in every state, and
   after a shape change, with the frames running and no further shape change,
   it reaches 0 and stays there. *)
C24_Settles ==
  /\ [](transitionRef = 0 \/ (TUnit \div 100 <= transitionRef /\ transitionRef <= TUnit))
  /\ (sinceChange >= 0) ~> (transitionRef = 0)
  /\ [][(transitionRef = 0 /\ currentShape' = currentShape) => transitionRef' = 0]_vars

C24_Witness ==
  /\ lastStep = "frame" /\ sinceChange > 56
  /\ transitionRef = 0 /\ prevShapeRef = "Galaxy"
  /\ ~isMusicMode

(* C25: the stroke walk never divides by a zero segment length: every sample
   placed for an accepted drawing uses an interpolation parameter t with
   0 <= t <= 1, so its coordinates are numbers on its segment. *)
C25_NoZeroDivision ==
  lastSave.called = "onSave" =>
    \A k \in 1..Len(lastSave.samples) :
      LET smp == lastSave.samples[k]
      IN /\ smp.tDen # 0
         /\ 0 <= smp.tNum /\ smp.tNum <= smp.tDen
         /\ smp.x # NaN /\ smp.y # NaN

(* C25, for the samples on segments of positive length: these have t in [0, 1]. *)
C25_OnSegmentWhenLong ==
  lastSave.called = "onSave" =>
    \A k \in 1..Len(lastSave.samples) :
      LET smp == lastSave.samples[k]
      IN smp.tDen # 0 => (0 <= smp.tNum /\ smp.tNum <= smp.tDen)

(* C26: in every reachable state, when the active shape is CUSTOM a drawing has
   been saved: customPoints is not null. *)
C26_CustomHasPoints ==
  currentShape = "Custom" => customPoints # NoPoints

\* The Custom button was pressed with no drawing saved: the overlay opened and
\* the shape stayed what it was.
C26_Witness ==
  /\ showDrawingCanvas /\ customPoints = NoPoints
  /\ currentShape # "Custom" /\ eventsLeft < MaxSceneEvents

(* C27: the drone and the file playback are mutually exclusive: in every state
   reached by init, playAudioUrl calls (overlapping ones and failing ones) and
   stopAudio, isPlayingFile implies that no drone oscillator is running, and
   there are never more than three oscillators. *)
C27_DroneOrFile ==
  /\ isPlayingFile => oscillators = 0
  /\ oscillators <= 3

(* C27, the second half alone: at most one set of three oscillators. *)
C27_OneDrone ==
  /\ oscillators \in {0, 3}
  /\ droneGain <=> oscillators = 3

(* C28: whenever no playback request is pending, the App is in music mode
   exactly when the AudioManager is playing a file, and the file is the track
   at currentTrackIndex. *)
C28_ModeAgrees ==
  requests = <<>> =>
    /\ isMusicMode <=> isPlayingFile
    /\ isMusicMode => audioElement.src = currentTrackIndex

(* C28, for runs where no playback fails and no call overlaps another. *)
C28_AgreesWhenPlayed ==
  [][(requests = <<>> /\ (isMusicMode <=> isPlayingFile)
      /\ \E k \in 1..MaxRequests : settle(k, TRUE))
     => (requests' = <<>> => (isMusicMode' /\ isPlayingFile'
                               /\ audioElement'.src = currentTrackIndex'))]_vars

(* C29: the tracker calls onGestureTrigger only on an open-then-closed gesture:
   at a result that triggers, the smoothed openness is below 0.25, it was above
   0.60 at some result since the previous trigger (or the start), and more
   than 450 ms have passed since the previous trigger.  A closed hand that
   comes inside the 450 ms is not lost: the first closed result after them
   triggers. *)
C29_OpenThenClosed ==
  /\ [][(now' # now /\ "onGestureTrigger" \in called') =>
          /\ prevOpennessRef' < 250
          /\ peak > 600
          /\ now' - lastTriggerTimeRef > 450]_vars
  /\ [][(now' # now /\ peak > 600 /\ prevOpennessRef' < 250
         /\ now' - lastTriggerTimeRef > 450) =>
          "onGestureTrigger" \in called']_vars

\* A trigger whose closed hand first came inside the window of the trigger before
C29_Witness ==
  /\ "onGestureTrigger" \in called /\ held
  /\ lastTriggerTimeRef = now /\ lastTriggerTimeRef > StartTime + 500

(* C30: after the tracker is unmounted, no tracker result and no camera frame
   that arrives later calls onHandUpdate or onGestureTrigger or sends an image
   to the closed hands instance, however the cleanup falls among the callbacks
   still due: the App's snapshot and shape are not touched and no image is
   sent. *)
C30_QuietAfterUnmount ==
  /\ [](~isMountedRef => called \cap {"onHandUpdate", "onGestureTrigger", "send"} = {})
  /\ [][~isMountedRef =>
          /\ handData' = handData /\ color' = color /\ nextShape' = nextShape
          /\ inFlight' <= inFlight]_vars

\* A result that arrived after the cleanup, while another image is still out
C30_Witness ==
  /\ ~isMountedRef /\ handsRef = "null"
  /\ called = {"onResults"} /\ inFlight > 0

=============================================================================
